---- MODULE Spec2Model ----
(***************************************************************************)
(* Verification model of the Bi-Calendar Invoice Reconciliation Engine     *)
(* (acebista/Invision): the invoice store and executeAutoMerge, the        *)
(* merge-key generators, the validation pipeline and the BS/AD calendar    *)
(* wrappers.                                                               *)
(***************************************************************************)
EXTENDS Integers, Sequences, FiniteSets, TLC

(***************************************************************************)
(* PART 1.  The invoice store and the auto-merge (lib/invoiceProcessing.ts) *)
(***************************************************************************)

\* Bounds of the store model.
MaxInv == 3
NumWorkers == 2
MaxFaults == 1

\* POST /api/invoices/create rejects more than two pages per invoice.
MaxPagesPerInvoice == 2

InvIds == 1..MaxInv
Workers == 1..NumWorkers
PageIds == InvIds \X (1..MaxPagesPerInvoice)

NULL == "null"
MergeKey1 == "ws|acme|inv1|2082/09/07"

\* The submissions inserted: <<merge_key, status, page numbers of its pages>>
\* (pageNo is the client's choice, so the second page may be numbered first).
Submissions == { <<MergeKey1, "approved",       <<1>>    >>,
                 <<MergeKey1, "pending_review", <<2, 1>> >>,
                 <<NULL,      "pending_review", <<1>>    >> }

VARIABLES
    invoices,        \* table invoices: id -> row
    invoice_pages,   \* table invoice_pages: page id -> [invoice_id, page_no]
    invoice_flags,   \* table invoice_flags: invoice id -> row (unique(invoice_id))
    extractions,     \* table extractions: invoice id -> row
    usedIds,         \* invoice ids ever generated (uuids are never reused)
    pc,              \* per worker: position in the pipeline run / executeAutoMerge
    mode,            \* per worker: "run" (lookup then merge) or "direct" (merge called)
    mergeKey,        \* per worker: the mergeKey given to checkForMergeCandidate
    candidate,       \* per worker: what checkForMergeCandidate returned
    existingInvoiceId,
    duplicateInvoiceId,
    maxPageNo,
    duplicatePages,
    idx,             \* the loop variable i of executeAutoMerge
    ret,             \* value returned by executeAutoMerge: "none" | "true" | "false"
    faults,          \* store operations that failed so far
    callM,           \* history: highest page number of existing when the call was made
    callPages,       \* history: the duplicate's pages, in order, when the call was made
    writeFailed,     \* history: a write of this call failed
    merged,          \* history: pairs <<existing, duplicate>> whose merge completed
    reinvoked,       \* history: this call was made on an already merged pair
    keyIn,           \* the arguments given to generateMergeKey
    keyOut,          \* per implementation of generateMergeKey: what it returned
    keyDone,         \* the implementations of generateMergeKey that have returned
    calIn,           \* the date given to bsToAd / adToBs
    calOut,          \* per calendar function: what it returned
    calDone,         \* the calendar functions that have returned
    rollsOver,       \* nepali-date-converter counts a day past a month's end on
    pipeIn,          \* the extraction given to the validation pipeline
    pipeOut,         \* per validation function: what it returned
    pipeDone,        \* the validation functions that have returned
    fnIn,            \* the arguments given to a function called on its own
    fnOut,           \* per function called on its own: what it returned
    fnDone,          \* the functions called on their own that have returned
    queue,           \* table processing_queue: task id -> row
    files,           \* storage bucket 'invoices': the paths stored
    taskRun,         \* per task: the run of the process-invoice function on it
    createRun,       \* the request POST /api/invoices/create being served
    client,          \* the review UI: its invoices, the one reviewed, the form
    approveRes       \* the last response of POST /api/invoices/approve

storeVars == <<invoices, invoice_pages, invoice_flags, extractions>>
workerVars == <<pc, mode, mergeKey, candidate, existingInvoiceId, duplicateInvoiceId, maxPageNo,
                duplicatePages, idx, ret>>
histVars == <<usedIds, faults, callM, callPages, writeFailed, merged, reinvoked>>
mergeVars == <<storeVars, workerVars, histVars>>
keyVars == <<keyIn, keyOut, keyDone>>
calVars == <<calIn, calOut, calDone, rollsOver>>
pipeVars == <<pipeIn, pipeOut, pipeDone>>
fnVars == <<fnIn, fnOut, fnDone>>
appVars == <<queue, files, taskRun, createRun, client, approveRes>>
vars == <<mergeVars, keyVars, calVars, pipeVars, fnVars, appVars>>

\* ---- the tables ------------------------------------------------------

InvoiceRow(i, key, st) ==
    [ vendor_name_en    |-> "Acme",
      invoice_number_en |-> "INV1",
      invoice_date_raw  |-> "2082/09/07",
      grand_total       |-> 1130,
      merge_key         |-> key,
      status            |-> st ]

FlagRow(i) == [math_mismatch |-> FALSE, vat_inconsistent |-> FALSE,
               missing_fields |-> FALSE, duplicate_invoice |-> FALSE]

ExtractionRow(i) == [model |-> "gemini-1.5-flash", confidence |-> 1]

Restrict(f, S) == [x \in S |-> f[x]]

PagesOf(pgs, inv) == {p \in DOMAIN pgs : pgs[p].invoice_id = inv}

\* .from('invoice_pages').select('page_no').eq('invoice_id', e)
\*    .order('page_no', {ascending: false}).limit(1), then  ?.[0]?.page_no || 0
MaxPageNoOf(pgs, inv) ==
    LET S == PagesOf(pgs, inv)
    IN  IF S = {} THEN 0
        ELSE CHOOSE n \in {pgs[p].page_no : p \in S} :
                 \A q \in S : pgs[q].page_no <= n

\* .select('id, page_no').eq('invoice_id', inv).order('page_no', {ascending: true})
OrderedPagesOf(pgs, inv) ==
    LET S == PagesOf(pgs, inv)
    IN  CHOOSE s \in [1..Cardinality(S) -> S] :
            /\ \A a, b \in 1..Cardinality(S) : a < b => pgs[s[a]].page_no < pgs[s[b]].page_no

\* The second query of executeAutoMerge, with a query on the wrong invoice.
DuplicatePagesQueryWrongInvoice(pgs, e, d) == OrderedPagesOf(pgs, e)

DuplicatePagesQuery(pgs, e, d) == OrderedPagesOf(pgs, d)

\* The row constraints of invoice_pages: the foreign key to invoices and
\* unique(invoice_id, page_no).
PageWriteAllowed(invs, pgs, p, inv, no) ==
    /\ inv \in DOMAIN invs
    /\ \A q \in DOMAIN pgs : q # p => ~(pgs[q].invoice_id = inv /\ pgs[q].page_no = no)

\* .update({invoice_id: e, page_no: no}).eq('id', p)
UpdatePageRow(pgs, p, inv, no) ==
    [pgs EXCEPT ![p] = [invoice_id |-> inv, page_no |-> no]]

\* A delete of the duplicate that also resets the survivor for a new review.
InvoicesAfterDeleteResetSurvivor(invs, e, d) ==
    LET kept == Restrict(invs, DOMAIN invs \ {d})
    IN  [i \in DOMAIN kept |->
            IF i = e THEN [kept[i] EXCEPT !.status = "pending_review"] ELSE kept[i]]

\* .from('invoices').delete().eq('id', d)
InvoicesAfterDelete(invs, e, d) == Restrict(invs, DOMAIN invs \ {d})

\* "on delete cascade" of invoice_pages, invoice_flags and extractions
CascadePages(pgs, d) == Restrict(pgs, {p \in DOMAIN pgs : pgs[p].invoice_id # d})
CascadeByInvoice(tbl, d) == Restrict(tbl, DOMAIN tbl \ {d})

\* the MergeCandidate checkForMergeCandidate returns, and null
MergeCandidate(e, key) ==
    [existing_invoice_id |-> e, merge_key |-> key, confidence |-> "exact"]
NoCandidate == [existing_invoice_id |-> 0, merge_key |-> NULL, confidence |-> "none"]

\* ---- Init ------------------------------------------------------------

MergeInit ==
    /\ invoices = <<>>
    /\ invoice_pages = <<>>
    /\ invoice_flags = <<>>
    /\ extractions = <<>>
    /\ usedIds = {}
    /\ pc = [w \in Workers |-> "idle"]
    /\ mode = [w \in Workers |-> "none"]
    /\ mergeKey = [w \in Workers |-> NULL]
    /\ candidate = [w \in Workers |-> NoCandidate]
    /\ existingInvoiceId = [w \in Workers |-> 0]
    /\ duplicateInvoiceId = [w \in Workers |-> 0]
    /\ maxPageNo = [w \in Workers |-> 0]
    /\ duplicatePages = [w \in Workers |-> <<>>]
    /\ idx = [w \in Workers |-> 0]
    /\ ret = [w \in Workers |-> "none"]
    /\ faults = 0
    /\ callM = [w \in Workers |-> 0]
    /\ callPages = [w \in Workers |-> <<>>]
    /\ writeFailed = [w \in Workers |-> FALSE]
    /\ merged = {}
    /\ reinvoked = [w \in Workers |-> FALSE]

\* ---- actions ---------------------------------------------------------

\* A completed submission: the invoice row with its pages, flags and extraction,
\* carrying the merge_key the pipeline computed for it.
InsertInvoice(i, key, st, nos) ==
    /\ i \notin usedIds
    /\ \A w \in Workers : pc[w] \in {"idle", "done"}
    /\ \A j \in InvIds : j < i => j \in usedIds
    /\ usedIds' = usedIds \cup {i}
    /\ invoices' = [j \in DOMAIN invoices \cup {i} |->
                       IF j = i THEN InvoiceRow(i, key, st) ELSE invoices[j]]
    /\ invoice_pages' = [p \in DOMAIN invoice_pages \cup ({i} \X (1..Len(nos))) |->
                            IF p[1] = i /\ p \notin DOMAIN invoice_pages
                            THEN [invoice_id |-> i, page_no |-> nos[p[2]]]
                            ELSE invoice_pages[p]]
    /\ invoice_flags' = [j \in DOMAIN invoice_flags \cup {i} |->
                            IF j = i THEN FlagRow(i) ELSE invoice_flags[j]]
    /\ extractions' = [j \in DOMAIN extractions \cup {i} |->
                          IF j = i THEN ExtractionRow(i) ELSE extractions[j]]
    /\ UNCHANGED <<workerVars, faults, callM, callPages, writeFailed,
                   merged, reinvoked>>
    /\ UNCHANGED <<keyVars, calVars, pipeVars, fnVars, appVars>>

EnterMerge(w, m, e, d) ==
    /\ pc' = [pc EXCEPT ![w] = "readMax"]
    /\ mode' = [mode EXCEPT ![w] = m]
    /\ existingInvoiceId' = [existingInvoiceId EXCEPT ![w] = e]
    /\ duplicateInvoiceId' = [duplicateInvoiceId EXCEPT ![w] = d]
    /\ maxPageNo' = [maxPageNo EXCEPT ![w] = 0]
    /\ duplicatePages' = [duplicatePages EXCEPT ![w] = <<>>]
    /\ idx' = [idx EXCEPT ![w] = 0]
    /\ ret' = [ret EXCEPT ![w] = "none"]
    /\ callM' = [callM EXCEPT ![w] = MaxPageNoOf(invoice_pages, e)]
    /\ callPages' = [callPages EXCEPT ![w] = OrderedPagesOf(invoice_pages, d)]
    /\ writeFailed' = [writeFailed EXCEPT ![w] = FALSE]
    /\ reinvoked' = [reinvoked EXCEPT ![w] = (<<e, d>> \in merged)]

\* A store call fails.
Fault ==
    /\ faults < MaxFaults
    /\ faults' = faults + 1

\* The query without .neq('id', currentInvoiceId).
MergeCandidates_CurrentIncluded(invs, key, cur) ==
    IF key = NULL THEN {}
    ELSE {j \in DOMAIN invs : invs[j].merge_key = key}

\* checkForMergeCandidate(mergeKey, currentInvoiceId): the candidates the
\* query .eq('merge_key', mergeKey).neq('id', currentInvoiceId) matches.
MergeCandidates(invs, key, cur) ==
    IF key = NULL THEN {}
    ELSE {j \in DOMAIN invs : invs[j].merge_key = key /\ j # cur}

\* The values checkForMergeCandidate can return: .limit(1) hands back any one
\* of the rows matched, and no row gives null.
checkForMergeCandidate(invs, key, cur) ==
    IF MergeCandidates(invs, key, cur) = {} THEN {NoCandidate}
    ELSE {MergeCandidate(j, key) : j \in MergeCandidates(invs, key, cur)}

\* The run ends without a merge.
NoMerge(w, cur) ==
    /\ pc' = [pc EXCEPT ![w] = "done"]
    /\ mode' = [mode EXCEPT ![w] = "run"]
    /\ existingInvoiceId' = [existingInvoiceId EXCEPT ![w] = 0]
    /\ duplicateInvoiceId' = [duplicateInvoiceId EXCEPT ![w] = cur]
    /\ ret' = [ret EXCEPT ![w] = "none"]
    /\ UNCHANGED <<maxPageNo, duplicatePages, idx, callM, callPages,
                   writeFailed, reinvoked>>

\* A pipeline run for the persisted invoice cur: look up a candidate and, if
\* one is found, call executeAutoMerge(candidate, cur).
PipelineRun(w, cur) ==
    /\ pc[w] = "idle"
    /\ cur \in DOMAIN invoices
    /\ mergeKey' = [mergeKey EXCEPT ![w] = invoices[cur].merge_key]
    /\ \/ \E c \in checkForMergeCandidate(invoices, invoices[cur].merge_key, cur) :
              /\ candidate' = [candidate EXCEPT ![w] = c]
              /\ IF c = NoCandidate THEN NoMerge(w, cur)
                 ELSE EnterMerge(w, "run", c.existing_invoice_id, cur)
              /\ UNCHANGED faults
       \/ \* the query resolves with {data: null, error}: existing is null
          /\ invoices[cur].merge_key # NULL
          /\ Fault
          /\ candidate' = [candidate EXCEPT ![w] = NoCandidate]
          /\ NoMerge(w, cur)
    /\ UNCHANGED <<storeVars, usedIds, merged>>
    /\ UNCHANGED <<keyVars, calVars, pipeVars, fnVars, appVars>>

\* executeAutoMerge(e, d) called on any two invoice ids, present or not.
CallExecuteAutoMerge(w, e, d) ==
    /\ pc[w] = "idle"
    /\ e \in usedIds /\ d \in usedIds /\ e # d
    /\ EnterMerge(w, "direct", e, d)
    /\ UNCHANGED <<storeVars, mergeKey, candidate, usedIds, faults, merged>>
    /\ UNCHANGED <<keyVars, calVars, pipeVars, fnVars, appVars>>

\* executeAutoMerge returns r: its locals are gone.
Return(w, r) ==
    /\ pc' = [pc EXCEPT ![w] = "done"]
    /\ ret' = [ret EXCEPT ![w] = r]
    /\ maxPageNo' = [maxPageNo EXCEPT ![w] = 0]
    /\ duplicatePages' = [duplicatePages EXCEPT ![w] = <<>>]
    /\ idx' = [idx EXCEPT ![w] = 0]
    /\ callM' = [callM EXCEPT ![w] = 0]
    /\ callPages' = [callPages EXCEPT ![w] = <<>>]

Goto(w, l) ==
    /\ pc' = [pc EXCEPT ![w] = l]
    /\ UNCHANGED <<ret, callM, callPages>>

\* A store call that rejects: the catch block returns false.
Throws(w) == Fault /\ Return(w, "false")

\* First query: the highest page_no of the existing invoice.
SelectMaxPageNo(w) ==
    /\ pc[w] = "readMax"
    /\ \/ /\ maxPageNo' = [maxPageNo EXCEPT ![w] =
                              MaxPageNoOf(invoice_pages, existingInvoiceId[w])]
          /\ Goto(w, "readDup")
          /\ UNCHANGED <<faults, duplicatePages, idx>>
       \/ \* the query resolves with {data: null, error}: maxPageNo is 0
          /\ Fault
          /\ maxPageNo' = [maxPageNo EXCEPT ![w] = 0]
          /\ Goto(w, "readDup")
          /\ UNCHANGED <<duplicatePages, idx>>
       \/ Throws(w)
    /\ UNCHANGED <<storeVars, mode, mergeKey, candidate, existingInvoiceId, duplicateInvoiceId,
                   usedIds, writeFailed, merged, reinvoked>>
    /\ UNCHANGED <<keyVars, calVars, pipeVars, fnVars, appVars>>

\* Second query: the duplicate's pages in ascending page_no; none => false.
SelectDuplicatePages(w) ==
    /\ pc[w] = "readDup"
    /\ \/ LET dp == DuplicatePagesQuery(invoice_pages, existingInvoiceId[w],
                                        duplicateInvoiceId[w])
          IN  /\ UNCHANGED faults
              /\ IF Len(dp) = 0
                 THEN Return(w, "false")
                 ELSE /\ duplicatePages' = [duplicatePages EXCEPT ![w] = dp]
                      /\ Goto(w, "move")
                      /\ UNCHANGED <<maxPageNo, idx>>
       \/ \* {data: null, error}: !duplicatePages => return false
          Fault /\ Return(w, "false")
       \/ Throws(w)
    /\ UNCHANGED <<storeVars, mode, mergeKey, candidate, existingInvoiceId, duplicateInvoiceId,
                   usedIds, writeFailed, merged, reinvoked>>
    /\ UNCHANGED <<keyVars, calVars, pipeVars, fnVars, appVars>>

AfterPage(w) ==
    /\ idx' = [idx EXCEPT ![w] = idx[w] + 1]
    /\ Goto(w, IF idx[w] + 1 < Len(duplicatePages[w]) THEN "move" ELSE "delete")
    /\ UNCHANGED <<maxPageNo, duplicatePages>>

\* One iteration of the loop: move page i to the existing invoice at
\* maxPageNo + i + 1.  The result of the update is not looked at.
UpdatePage(w) ==
    /\ pc[w] = "move"
    /\ LET p  == duplicatePages[w][idx[w] + 1]
           e  == existingInvoiceId[w]
           no == maxPageNo[w] + idx[w] + 1
       IN  \/ /\ p \in DOMAIN invoice_pages
              /\ PageWriteAllowed(invoices, invoice_pages, p, e, no)
              /\ invoice_pages' = UpdatePageRow(invoice_pages, p, e, no)
              /\ AfterPage(w)
              /\ UNCHANGED <<faults, writeFailed>>
           \/ \* the row is gone: the update matches nothing, no error
              /\ p \notin DOMAIN invoice_pages
              /\ AfterPage(w)
              /\ UNCHANGED <<invoice_pages, faults, writeFailed>>
           \/ \* a constraint rejects the update: {error}, nothing written
              /\ p \in DOMAIN invoice_pages
              /\ ~PageWriteAllowed(invoices, invoice_pages, p, e, no)
              /\ writeFailed' = [writeFailed EXCEPT ![w] = TRUE]
              /\ AfterPage(w)
              /\ UNCHANGED <<invoice_pages, faults>>
           \/ \* the store fails the update: {error}, nothing written
              /\ Fault
              /\ writeFailed' = [writeFailed EXCEPT ![w] = TRUE]
              /\ AfterPage(w)
              /\ UNCHANGED invoice_pages
           \/ Throws(w) /\ UNCHANGED <<invoice_pages, writeFailed>>
    /\ UNCHANGED <<invoices, invoice_flags, extractions, mode, mergeKey, candidate, existingInvoiceId,
                   duplicateInvoiceId, usedIds, merged, reinvoked>>
    /\ UNCHANGED <<keyVars, calVars, pipeVars, fnVars, appVars>>

\* Delete the duplicate invoice (cascading), then return true.
DeleteDuplicate(w) ==
    /\ pc[w] = "delete"
    /\ LET e == existingInvoiceId[w]
           d == duplicateInvoiceId[w]
       IN  \/ /\ invoices' = InvoicesAfterDelete(invoices, e, d)
              /\ invoice_pages' = CascadePages(invoice_pages, d)
              /\ invoice_flags' = CascadeByInvoice(invoice_flags, d)
              /\ extractions' = CascadeByInvoice(extractions, d)
              /\ Return(w, "true")
              /\ merged' = merged \cup {<<e, d>>}
              /\ UNCHANGED <<faults, writeFailed>>
           \/ \* the delete fails with {error}: nothing deleted, still true
              /\ Fault
              /\ writeFailed' = [writeFailed EXCEPT ![w] = TRUE]
              /\ Return(w, "true")
              /\ UNCHANGED <<storeVars, merged>>
           \/ Throws(w) /\ UNCHANGED <<storeVars, writeFailed, merged>>
    /\ UNCHANGED <<mode, mergeKey, candidate, existingInvoiceId, duplicateInvoiceId,
                   usedIds, reinvoked>>
    /\ UNCHANGED <<keyVars, calVars, pipeVars, fnVars, appVars>>

MergeNext ==
    \/ \E i \in InvIds, s \in Submissions : InsertInvoice(i, s[1], s[2], s[3])
    \/ \E w \in Workers, cur \in InvIds : PipelineRun(w, cur)
    \/ \E w \in Workers, e, d \in InvIds : CallExecuteAutoMerge(w, e, d)
    \/ \E w \in Workers : SelectMaxPageNo(w)
    \/ \E w \in Workers : SelectDuplicatePages(w)
    \/ \E w \in Workers : UpdatePage(w)
    \/ \E w \in Workers : DeleteDuplicate(w)

(***************************************************************************)
(* PART 2.  Strings, the normalization module and the two generateMergeKey *)
(* (lib/normalization.ts, lib/invoiceProcessing.ts)                        *)
(***************************************************************************)

\* Bounds of the generated inputs.
MaxVendorLen == 3
MaxInvoiceLen == 2

\* A string is a sequence of characters; null / undefined is NoStr.
NoStr == <<"null">>

\* !input  for a string | null | undefined
Falsy(s) == s = NoStr \/ s = <<>>

\* JavaScript white space (\s, String.prototype.trim) and the class
\* [\x00-\x1F\x7F]: TAB is in both, SOH (\x01) is a control character only.
Whitespace == {" ", "TAB"}
ControlChars == {"TAB", "SOH"}

UpperCase == <<"A", "B", "C", "D", "E", "F", "G", "H", "I", "J", "K", "L", "M",
               "N", "O", "P", "Q", "R", "S", "T", "U", "V", "W", "X", "Y", "Z">>
LowerCase == <<"a", "b", "c", "d", "e", "f", "g", "h", "i", "j", "k", "l", "m",
               "n", "o", "p", "q", "r", "s", "t", "u", "v", "w", "x", "y", "z">>
ArabicDigits == <<"0", "1", "2", "3", "4", "5", "6", "7", "8", "9">>
NepaliDigits == <<"dv0", "dv1", "dv2", "dv3", "dv4", "dv5", "dv6", "dv7", "dv8", "dv9">>

Range(s) == {s[i] : i \in DOMAIN s}
MapSeq(s, F(_)) == [i \in DOMAIN s |-> F(s[i])]
Translate(c, from, to) ==
    IF c \in Range(from) THEN to[CHOOSE i \in DOMAIN from : from[i] = c] ELSE c

\* the class [a-zA-Z0-9]
AsciiAlnum == Range(UpperCase) \cup Range(LowerCase) \cup Range(ArabicDigits)

toLowerCase(s) == MapSeq(s, LAMBDA c : Translate(c, UpperCase, LowerCase))

trim(s) ==
    LET keep == {i \in DOMAIN s : s[i] \notin Whitespace}
    IN  IF keep = {} THEN <<>>
        ELSE SubSeq(s, CHOOSE i \in keep : \A j \in keep : i <= j,
                       CHOOSE i \in keep : \A j \in keep : j <= i)

\* .replace(/[...]/g, ''): drop every character of the class
RemoveChars(s, class) == SelectSeq(s, LAMBDA c : c \notin class)

\* .replace(/[^...]/g, ''): keep the characters of the class only
KeepChars(s, class) == SelectSeq(s, LAMBDA c : c \in class)

\* .replace(/\s+/g, ' '): every maximal run of white space becomes one space
CollapseWhitespace(s) ==
    LET marked == [i \in DOMAIN s |->
                     IF s[i] \notin Whitespace THEN s[i]
                     ELSE IF i > 1 /\ s[i - 1] \in Whitespace THEN "DROP" ELSE " "]
    IN  SelectSeq(marked, LAMBDA c : c # "DROP")

endsWith(s, suffix) ==
    /\ Len(suffix) <= Len(s)
    /\ SubSeq(s, Len(s) - Len(suffix) + 1, Len(s)) = suffix

\* str.split(sep)
RECURSIVE split(_, _)
split(s, sep) ==
    IF sep \notin Range(s) THEN <<s>>
    ELSE LET i == CHOOSE k \in DOMAIN s : s[k] = sep /\ \A j \in 1..(k - 1) : s[j] # sep
         IN  <<SubSeq(s, 1, i - 1)>> \o split(SubSeq(s, i + 1, Len(s)), sep)

\* ---- lib/normalization.ts ----------------------------------------------

convertNepaliDigits(input) ==
    IF Falsy(input) THEN NoStr
    ELSE MapSeq(input, LAMBDA c : Translate(c, NepaliDigits, ArabicDigits))

normalizeString(input) ==
    IF Falsy(input) THEN NoStr
    ELSE CollapseWhitespace(RemoveChars(trim(input), ControlChars))

suffixes ==
    << <<"p", "v", "t", " ", "l", "t", "d">>,
       <<"p", "v", "t", ".", " ", "l", "t", "d", ".">>,
       <<"p", "v", "t", ".", " ", "l", "t", "d">>,
       <<"p", "r", "i", "v", "a", "t", "e", " ", "l", "i", "m", "i", "t", "e", "d">>,
       <<"p", " ", "l", "t", "d">>,
       <<"p", ".", " ", "l", "t", "d", ".">>,
       <<"l", "i", "m", "i", "t", "e", "d">>,
       <<"l", "t", "d">>,
       <<"l", "t", "d", ".">>,
       <<"(", "p", ")", " ", "l", "t", "d">>,
       <<"(", "p", "v", "t", ")", " ", "l", "t", "d">>,
       <<"dvPA", "dvVIRAMA", "dvRA", "dvAA", " ", "dvLA", "dvI">>,
       <<"dvPA", "dvVIRAMA", "dvRA", "dvAA", ".", " ", "dvLA", "dvI", ".">> >>

\* for (const suffix of suffixes) if (normalized.endsWith(suffix))
\*     normalized = normalized.slice(0, -suffix.length).trim()
RECURSIVE StripSuffixes(_, _)
StripSuffixes(normalized, k) ==
    IF k > Len(suffixes) THEN normalized
    ELSE IF endsWith(normalized, suffixes[k])
         THEN StripSuffixes(trim(SubSeq(normalized, 1,
                                        Len(normalized) - Len(suffixes[k]))), k + 1)
         ELSE StripSuffixes(normalized, k + 1)

normalizeVendorName(input) ==
    IF Falsy(input) THEN NoStr
    ELSE LET normalized == normalizeString(input)
         IN  IF Falsy(normalized) THEN NoStr
             ELSE StripSuffixes(toLowerCase(normalized), 1)

normalizeInvoiceNumber(input) ==
    IF Falsy(input) THEN NoStr
    ELSE LET normalized == KeepChars(toLowerCase(convertNepaliDigits(input)),
                                     Range(LowerCase) \cup Range(ArabicDigits) \cup {"-"})
         IN  IF normalized = <<>> THEN NoStr ELSE normalized

JoinKey(ws, vendor, inv, date) ==
    ws \o <<"|">> \o vendor \o <<"|">> \o inv \o <<"|">> \o date

\* generateMergeKey of lib/normalization.ts
generateMergeKey_normalization(workspaceId, vendorName, invoiceNumber, bsDate) ==
    IF Falsy(workspaceId) \/ Falsy(vendorName) \/ Falsy(invoiceNumber) \/ Falsy(bsDate)
    THEN NoStr
    ELSE LET vendor == normalizeVendorName(vendorName)
             invNum == normalizeInvoiceNumber(invoiceNumber)
         IN  IF Falsy(vendor) \/ Falsy(invNum) THEN NoStr
             ELSE JoinKey(workspaceId, vendor, invNum, bsDate)

\* ---- lib/invoiceProcessing.ts -------------------------------------------

\* normalizeString(vendorNameEn)?.toLowerCase().trim() || ''
vendorNormalized(vendorNameEn) ==
    LET n == normalizeString(vendorNameEn)
    IN  IF n = NoStr THEN <<>> ELSE trim(toLowerCase(n))

\* convertNepaliDigits(invoiceNumberEn)?.replace(/[^a-zA-Z0-9]/g, '').toLowerCase() || ''
invoiceNormalized(invoiceNumberEn) ==
    LET c == convertNepaliDigits(invoiceNumberEn)
    IN  IF c = NoStr THEN <<>> ELSE toLowerCase(KeepChars(c, AsciiAlnum))

\* generateMergeKey without the test of the normalized values.
generateMergeKey_pipeline_NoEmptyTest(ws, vendor, invoice, date) ==
    IF Falsy(ws) \/ Falsy(vendor) \/ Falsy(invoice) \/ Falsy(date)
    THEN NoStr
    ELSE JoinKey(ws, vendorNormalized(vendor), invoiceNormalized(invoice), date)

\* generateMergeKey of lib/invoiceProcessing.ts
generateMergeKey_pipeline(workspaceId, vendorNameEn, invoiceNumberEn, primaryBsDate) ==
    IF Falsy(workspaceId) \/ Falsy(vendorNameEn) \/ Falsy(invoiceNumberEn)
       \/ Falsy(primaryBsDate)
    THEN NoStr
    ELSE IF vendorNormalized(vendorNameEn) = <<>>
            \/ invoiceNormalized(invoiceNumberEn) = <<>>
         THEN NoStr
         ELSE JoinKey(workspaceId, vendorNormalized(vendorNameEn),
                      invoiceNormalized(invoiceNumberEn), primaryBsDate)

\* ---- the inputs and the two calls --------------------------------------

Strings(alphabet, n) == UNION {[1..k -> alphabet] : k \in 0..n}

VendorAlphabet == {"a", "A", " ", "SOH", "|"}
InvoiceAlphabet == {"A", "dv1", "-", "|"}

VendorInputs ==
    Strings(VendorAlphabet, MaxVendorLen)
    \cup { NoStr,
           <<"L", "t", "d">>,
           <<"a", "TAB", "b">>,
           <<"A", "c", "m", "e", " ", "P", "v", "t", " ", "L", "t", "d">>,
           <<"A", " ", "L", "t", "d", " ", "L", "t", "d">> }
InvoiceInputs == Strings(InvoiceAlphabet, MaxInvoiceLen) \cup {NoStr}
WorkspaceInputs == { <<>>, <<"w", "1">> }
BsDate1 == <<"2", "0", "8", "2", "/", "0", "9", "/", "0", "7">>
BsDateInputs == { NoStr, <<>>, BsDate1 }

KeyImpls == {"pipeline", "normalization"}

KeyIdle ==
    /\ keyIn = [workspaceId |-> <<>>, vendorName |-> NoStr,
                invoiceNumber |-> NoStr, bsDate |-> NoStr]
    /\ keyOut = [f \in KeyImpls |-> NoStr]
    /\ keyDone = KeyImpls

KeyInit ==
    /\ keyIn \in [workspaceId : WorkspaceInputs, vendorName : VendorInputs,
                  invoiceNumber : InvoiceInputs, bsDate : BsDateInputs]
    /\ keyOut = [f \in KeyImpls |-> NoStr]
    /\ keyDone = {}

KeyReturns(f, result) ==
    /\ f \notin keyDone
    /\ keyOut' = [keyOut EXCEPT ![f] = result]
    /\ keyDone' = keyDone \cup {f}
    /\ UNCHANGED <<keyIn, mergeVars, calVars, pipeVars, fnVars, appVars>>

CallGenerateMergeKeyPipeline ==
    KeyReturns("pipeline",
               generateMergeKey_pipeline(keyIn.workspaceId, keyIn.vendorName,
                                         keyIn.invoiceNumber, keyIn.bsDate))

CallGenerateMergeKeyNormalization ==
    KeyReturns("normalization",
               generateMergeKey_normalization(keyIn.workspaceId, keyIn.vendorName,
                                              keyIn.invoiceNumber, keyIn.bsDate))

KeyNext == CallGenerateMergeKeyPipeline \/ CallGenerateMergeKeyNormalization

(***************************************************************************)
(* PART 3.  The calendar wrappers bsToAd / adToBs (lib/nepaliCalendar.ts)  *)
(* over the JavaScript Date and the nepali-date-converter package          *)
(***************************************************************************)

\* Bound: the years given as input reach this far beyond the calendar table.
YearMargin == 1

NoDate == [null |-> TRUE]
Thrown == -1

RECURSIVE SumFirst(_, _)
SumFirst(s, n) == IF n = 0 THEN 0 ELSE SumFirst(s, n - 1) + s[n]

\* ---- the JavaScript Date: a time value, counted in days since 1970-01-01 --

IsLeapYear(y) == (y % 4 = 0 /\ y % 100 # 0) \/ y % 400 = 0
AdMonthDays(y) ==
    <<31, IF IsLeapYear(y) THEN 29 ELSE 28, 31, 30, 31, 30, 31, 31, 30, 31, 30, 31>>

\* the leap years before year y, and the days from 1 January 1970 to
\* 1 January of year y (negative before 1970)
LeapYearsBefore(y) == (y - 1) \div 4 - (y - 1) \div 100 + (y - 1) \div 400
DaysBeforeYear(y) == 365 * (y - 1970) + LeapYearsBefore(y) - LeapYearsBefore(1970)

\* new Date(year, monthIndex, day): a day beyond the month's end carries
\* over into the following month (30 February is 2 March, or 1 March).
NewDate(year, monthIndex, day) ==
    DaysBeforeYear(year) + SumFirst(AdMonthDays(year), monthIndex) + day - 1

\* getFullYear(), getMonth() (0-indexed), getDate() of a time value
DateFields(value) ==
    LET y == CHOOSE yy \in (1970 + value \div 366)..(1970 + value \div 365) :
                 DaysBeforeYear(yy) <= value /\ value < DaysBeforeYear(yy + 1)
        r == value - DaysBeforeYear(y)
        m == CHOOSE mm \in 0..11 :
                 /\ SumFirst(AdMonthDays(y), mm) <= r
                 /\ r < SumFirst(AdMonthDays(y), mm + 1)
    IN  [year |-> y, month |-> m, date |-> r - SumFirst(AdMonthDays(y), m) + 1]

\* ---- the nepali-date-converter package ------------------------------------

\* The package's table runs from BS 2000 to BS 2090.
PkgFirstYear == 2000
PkgLastYear == 2090

\* Of that table the two years BS 2081 and 2082 are charted here, with the day
\* the first of them begins: BS 2081/01/01 is AD 2024-04-13.  The dates given
\* as input lie in the charted years or outside the package's table.
BsMonthDays ==
    2081 :> <<31, 31, 32, 32, 31, 30, 30, 30, 29, 30, 30, 30>> @@
    2082 :> <<30, 32, 31, 32, 31, 30, 30, 30, 29, 30, 30, 30>>

BsTableYears == DOMAIN BsMonthDays
BsFirstYear == CHOOSE y \in BsTableYears : \A z \in BsTableYears : y <= z
BsLastYear == CHOOSE y \in BsTableYears : \A z \in BsTableYears : z <= y
BsEpoch == NewDate(2024, 3, 13)

RECURSIVE BsDaysBeforeYear(_)
BsDaysBeforeYear(y) ==
    IF y <= BsFirstYear THEN 0
    ELSE BsDaysBeforeYear(y - 1) + SumFirst(BsMonthDays[y - 1], 12)

BsTableDays == BsDaysBeforeYear(BsLastYear + 1)

\* A NepaliDate object is the number of its day in the table; Thrown stands
\* for the constructor throwing.

\* new NepaliDate(year, monthIndex, date).  A year outside the table throws.
\* What the package does with a day the month does not have is not fixed by
\* this repository: it throws, or (rollsOver) it counts on into the next month.
NepaliDateFromBs(year, monthIndex, date) ==
    IF year \notin BsTableYears \/ monthIndex \notin 0..11 THEN Thrown
    ELSE LET n == BsDaysBeforeYear(year) + SumFirst(BsMonthDays[year], monthIndex)
                  + date - 1
         IN  IF date \notin 1..BsMonthDays[year][monthIndex + 1] /\ ~rollsOver
             THEN Thrown
             ELSE IF n \notin 0..(BsTableDays - 1) THEN Thrown ELSE n

\* new NepaliDate(jsDate): a date outside the table throws
NepaliDateFromDate(value) ==
    IF value - BsEpoch \notin 0..(BsTableDays - 1) THEN Thrown ELSE value - BsEpoch

getAD(np) == DateFields(BsEpoch + np)

getBS(np) ==
    LET y == CHOOSE yy \in BsTableYears :
                 BsDaysBeforeYear(yy) <= np /\ np < BsDaysBeforeYear(yy + 1)
        r == np - BsDaysBeforeYear(y)
        m == CHOOSE mm \in 0..11 :
                 /\ SumFirst(BsMonthDays[y], mm) <= r
                 /\ r < SumFirst(BsMonthDays[y], mm + 1)
    IN  [year |-> y, month |-> m, date |-> r - SumFirst(BsMonthDays[y], m) + 1]

\* ---- lib/nepaliCalendar.ts -------------------------------------------------

bsToAd(bs) ==
    LET npDate == NepaliDateFromBs(bs.year, bs.month - 1, bs.day)
    IN  IF npDate = Thrown THEN NoDate
        ELSE LET ad == getAD(npDate)
             IN  [year |-> ad.year, month |-> ad.month + 1, day |-> ad.date]

\* adToBs handing the package's 0-indexed month on as it is.
adToBs_MonthNotShifted(ad) ==
    LET npDate == NepaliDateFromDate(NewDate(ad.year, ad.month - 1, ad.day))
    IN  IF npDate = Thrown THEN NoDate
        ELSE LET bs == getBS(npDate)
             IN  [year |-> bs.year, month |-> bs.month, day |-> bs.date]

adToBs(ad) ==
    LET jsDate == NewDate(ad.year, ad.month - 1, ad.day)
        npDate == NepaliDateFromDate(jsDate)
    IN  IF npDate = Thrown THEN NoDate
        ELSE LET bs == getBS(npDate)
             IN  [year |-> bs.year, month |-> bs.month + 1, day |-> bs.date]

\* ---- the inputs and the calls ----------------------------------------------

\* BS year Y begins in April of AD Y - 57 and ends in April of AD Y - 56.
BsOutYears ==
    ((PkgFirstYear - YearMargin)..(PkgFirstYear - 1))
    \cup ((PkgLastYear + 1)..(PkgLastYear + YearMargin))
AdOutYears ==
    ((PkgFirstYear - 57 - YearMargin)..(PkgFirstYear - 57 - 1))
    \cup ((PkgLastYear - 56 + 1)..(PkgLastYear - 56 + YearMargin))
AdChartedYears == getAD(0).year..getAD(BsTableDays - 1).year

\* every month and every day number the parsers let through, the years
\* charted or outside the table; no date that runs over the chart's end
BsInputs ==
    { bs \in [year : BsTableYears \cup BsOutYears, month : 1..12, day : 1..32] :
        bs.year \in BsTableYears =>
            BsDaysBeforeYear(bs.year) + SumFirst(BsMonthDays[bs.year], bs.month - 1)
            + bs.day - 1 < BsTableDays }
AdInputs ==
    { ad \in [year : AdChartedYears \cup AdOutYears, month : 1..12, day : 1..31] :
        ad.year \in AdChartedYears =>
            NewDate(ad.year, ad.month - 1, ad.day) - BsEpoch \in 0..(BsTableDays - 1) }

CalFunctions == {"bsToAd", "adToBs"}

\* the package either throws on a day the month does not have or counts on
PkgInit == rollsOver \in BOOLEAN
PkgIdle == rollsOver = FALSE

CalIdle ==
    /\ calIn = [cal |-> "AD", date |-> NoDate]
    /\ calOut = [f \in CalFunctions |-> NoDate]
    /\ calDone = CalFunctions

CalInit ==
    /\ calIn \in [cal : {"BS"}, date : BsInputs] \cup [cal : {"AD"}, date : AdInputs]
    /\ calOut = [f \in CalFunctions |-> NoDate]
    /\ calDone = {}

CalReturns(f, result) ==
    /\ f \notin calDone
    /\ calOut' = [calOut EXCEPT ![f] = result]
    /\ calDone' = calDone \cup {f}
    /\ UNCHANGED <<calIn, rollsOver, mergeVars, keyVars, pipeVars, fnVars, appVars>>

\* bsToAd on the BS date given, or on what adToBs made of the AD date given
CallBsToAd ==
    \/ /\ calIn.cal = "BS" /\ calDone = {}
       /\ CalReturns("bsToAd", bsToAd(calIn.date))
    \/ /\ calIn.cal = "AD" /\ calDone = {"adToBs"} /\ calOut["adToBs"] # NoDate
       /\ CalReturns("bsToAd", bsToAd(calOut["adToBs"]))

\* adToBs on the AD date given, or on what bsToAd made of the BS date given
CallAdToBs ==
    \/ /\ calIn.cal = "AD" /\ calDone = {}
       /\ CalReturns("adToBs", adToBs(calIn.date))
    \/ /\ calIn.cal = "BS" /\ calDone = {"bsToAd"} /\ calOut["bsToAd"] # NoDate
       /\ CalReturns("adToBs", adToBs(calOut["bsToAd"]))

CalNext == CallBsToAd \/ CallAdToBs

\* ---- numbers in strings ------------------------------------------------------

\* A number that may be absent (null, undefined or NaN) is <<>> or <<n>>.
NaN == <<>>
NoNum == <<>>
Num(n) == <<n>>
Val(x) == x[1]

DigitValue(c) == (CHOOSE i \in DOMAIN ArabicDigits : ArabicDigits[i] = c) - 1

RECURSIVE DigitsValue(_)
DigitsValue(s) ==
    IF s = <<>> THEN 0
    ELSE DigitsValue(SubSeq(s, 1, Len(s) - 1)) * 10 + DigitValue(s[Len(s)])

\* parseInt(s, 10): leading white space is skipped, then an optional sign and
\* the longest run of digits are read; no digit gives NaN
parseInt(s) ==
    LET lead == {i \in DOMAIN s : \A j \in 1..i : s[j] \in Whitespace}
        t    == SubSeq(s, Cardinality(lead) + 1, Len(s))
        sgn  == IF t # <<>> /\ t[1] \in {"+", "-"} THEN 1 ELSE 0
        u    == SubSeq(t, sgn + 1, Len(t))
        run  == {i \in DOMAIN u : \A j \in 1..i : u[j] \in Range(ArabicDigits)}
        v    == DigitsValue(SubSeq(u, 1, Cardinality(run)))
    IN  IF run = {} THEN NaN
        ELSE IF sgn = 1 /\ t[1] = "-" THEN Num(0 - v) ELSE Num(v)

\* String(n)
RECURSIVE NumToString(_)
NumToString(n) ==
    IF n < 0 THEN <<"-">> \o NumToString(0 - n)
    ELSE IF n < 10 THEN <<ArabicDigits[n + 1]>>
    ELSE NumToString(n \div 10) \o <<ArabicDigits[(n % 10) + 1]>>

\* .padStart(2, '0')
padStart2(s) == IF Len(s) = 0 THEN <<"0", "0">> ELSE IF Len(s) = 1 THEN <<"0">> \o s ELSE s

ReplaceChars(s, class, by) == MapSeq(s, LAMBDA c : IF c \in class THEN by ELSE c)

\* ---- lib/nepaliCalendar.ts: strings -----------------------------------------

\* the range test on the three numbers parsed (NaN: not a number)
DateOfNumbers(year, month, day, maxDay) ==
    IF year = NaN \/ month = NaN \/ day = NaN THEN NoDate
    ELSE IF Val(month) < 1 \/ Val(month) > 12 \/ Val(day) < 1 \/ Val(day) > maxDay
    THEN NoDate
    ELSE [year |-> Val(year), month |-> Val(month), day |-> Val(day)]

ParsedDate(parts, maxDay) ==
    IF Len(parts) # 3 THEN NoDate
    ELSE DateOfNumbers(parseInt(parts[1]), parseInt(parts[2]), parseInt(parts[3]),
                       maxDay)

parseBSDate(str) ==
    IF Falsy(str) THEN NoDate
    ELSE ParsedDate(split(ReplaceChars(trim(str), {".", "-"}, "/"), "/"), 32)

parseADDate(str) ==
    IF Falsy(str) THEN NoDate
    ELSE ParsedDate(split(ReplaceChars(trim(str), {"/"}, "-"), "-"), 31)

formatBSDate(bs) ==
    NumToString(bs.year) \o <<"/">> \o padStart2(NumToString(bs.month))
    \o <<"/">> \o padStart2(NumToString(bs.day))

formatADDate(ad) ==
    NumToString(ad.year) \o <<"-">> \o padStart2(NumToString(ad.month))
    \o <<"-">> \o padStart2(NumToString(ad.day))

ConvertedDate(bs, ad) ==
    [bs |-> bs, ad |-> ad, bsFormatted |-> formatBSDate(bs),
     adFormatted |-> formatADDate(ad)]

\* the two dates together, or null if the conversion gave none
ConvertedOrNull(bs, ad) ==
    IF bs = NoDate \/ ad = NoDate THEN NoDate ELSE ConvertedDate(bs, ad)

FromBS(bs) == IF bs = NoDate THEN NoDate ELSE ConvertedOrNull(bs, bsToAd(bs))

FromAD(ad) == IF ad = NoDate THEN NoDate ELSE ConvertedOrNull(adToBs(ad), ad)

convertFromBS(bsString) == FromBS(parseBSDate(bsString))

convertFromAD(adString) == FromAD(parseADDate(adString))

\* the year decides; a year from 2000 to 2050 is BS if the package makes a
\* date of it (a month or day that is NaN makes none)
CalendarOfNumbers(year, month, day) ==
    IF year = NaN THEN "none"
    ELSE IF Val(year) > 2050 THEN "BS"
    ELSE IF Val(year) < 2000 THEN "AD"
    ELSE IF month = NaN \/ day = NaN THEN "AD"
    ELSE IF NepaliDateFromBs(Val(year), Val(month) - 1, Val(day)) = Thrown
    THEN "AD" ELSE "BS"

CalendarOfParts(parts) ==
    IF Len(parts) # 3 THEN "none"
    ELSE CalendarOfNumbers(parseInt(parts[1]), parseInt(parts[2]), parseInt(parts[3]))

\* 'BS' | 'AD' | null (here "none")
detectCalendar(dateString) ==
    IF Falsy(dateString) THEN "none"
    ELSE CalendarOfParts(split(ReplaceChars(trim(dateString), {".", "-", "/"}, "/"),
                               "/"))
(***************************************************************************)
(* PART 4.  The processing pipeline (lib/invoiceProcessing.ts) and the     *)
(* approval gate of the validation module (lib/validation.ts)              *)
(***************************************************************************)

Abs(x) == IF x < 0 THEN 0 - x ELSE x

\* x || 0  for a number | null
OrZero(x) == IF x = NoNum THEN 0 ELSE Val(x)

NormalizedDate(raw, cal, bs, ad, valid) ==
    [raw_text |-> raw, calendar_detected |-> cal, bs_date |-> bs, ad_date |-> ad,
     conversion_valid |-> valid]

\* the result of normalizeDateField from the calendar settled and the two
\* conversions of the normalized text
NormalizedDateOf(rawText, normalized, calendar, fromBS, fromAD) ==
    IF calendar = "none"
    THEN IF fromBS # NoDate
         THEN NormalizedDate(rawText, "BS", fromBS.bsFormatted, fromBS.adFormatted,
                             TRUE)
         ELSE IF fromAD # NoDate
         THEN NormalizedDate(rawText, "AD", fromAD.bsFormatted, fromAD.adFormatted,
                             TRUE)
         ELSE NormalizedDate(rawText, "BS", <<>>, <<>>, FALSE)
    ELSE IF calendar = "BS"
    THEN IF fromBS = NoDate
         THEN NormalizedDate(rawText, "BS", normalized, <<>>, FALSE)
         ELSE NormalizedDate(rawText, "BS", fromBS.bsFormatted, fromBS.adFormatted,
                             TRUE)
    ELSE IF fromAD = NoDate
         THEN NormalizedDate(rawText, "AD", <<>>, normalized, FALSE)
         ELSE NormalizedDate(rawText, "AD", fromAD.bsFormatted, fromAD.adFormatted,
                             TRUE)

\* calendarDetected || detectCalendar(normalized), then the conversion
NormalizedText(rawText, normalized, calendarDetected) ==
    NormalizedDateOf(rawText, normalized,
                     IF calendarDetected # "none" THEN calendarDetected
                     ELSE detectCalendar(normalized),
                     convertFromBS(normalized), convertFromAD(normalized))

\* calendarDetected is 'BS', 'AD' or null (here "none")
normalizeDateField(rawText, calendarDetected) ==
    IF Falsy(rawText) THEN NoDate
    ELSE NormalizedText(rawText, convertNepaliDigits(rawText), calendarDetected)

determinePrimaryDate(transactionDate, billIssuingDate) ==
    IF transactionDate # NoDate /\ transactionDate.conversion_valid
    THEN [date |-> transactionDate, source |-> "transaction"]
    ELSE IF billIssuingDate # NoDate /\ billIssuingDate.conversion_valid
    THEN [date |-> billIssuingDate, source |-> "bill_issuing"]
    ELSE [date |-> NoDate, source |-> "none"]

\* validatePAN of lib/invoiceProcessing.ts
validatePAN_pipeline(pan) ==
    IF Falsy(pan) THEN FALSE
    ELSE Len(KeepChars(convertNepaliDigits(pan), Range(ArabicDigits))) = 9

\* inferVATRate of lib/invoiceProcessing.ts; |vat / taxable * 100 - 13| <= 1
\* is written without the division
inferVATRate(vatAmount, taxableAmount, explicitRate) ==
    IF explicitRate # NoNum /\ Val(explicitRate) \in {0, 13} THEN Val(explicitRate)
    ELSE IF vatAmount = NoNum \/ Val(vatAmount) = 0 THEN 0
    ELSE IF /\ taxableAmount # NoNum /\ Val(taxableAmount) > 0
            /\ Abs(Val(vatAmount) * 100 - 13 * Val(taxableAmount)) <= Val(taxableAmount)
    THEN 13
    ELSE 13

\* validateVAT; |taxable * (rate / 100) - vat| > 2 is written without the division
validateVAT(taxableAmount, vatAmount, grandTotal, vatRate) ==
    LET taxable == OrZero(taxableAmount)
        vat     == OrZero(vatAmount)
        total   == OrZero(grandTotal)
        math    == Abs((taxable + vat) - total) > 2
        incons  == vatRate > 0 /\ taxable > 0
                   /\ Abs(taxable * vatRate - vat * 100) > 2 * 100
    IN  [math_mismatch |-> math, vat_inconsistent |-> incons,
         notes |-> (IF math THEN <<"Math mismatch">> ELSE <<>>)
                   \o (IF incons THEN <<"VAT inconsistent">> ELSE <<>>)]

checkRequiredFields(data) ==
    LET missing ==
            (IF Falsy(data.vendor_name_en) THEN <<"vendor_name_en">> ELSE <<>>)
            \o (IF Falsy(data.invoice_number_en) THEN <<"invoice_number_en">> ELSE <<>>)
            \o (IF data.primary_date = NoDate THEN <<"primary_date">> ELSE <<>>)
            \o (IF data.grand_total = NoNum THEN <<"grand_total">> ELSE <<>>)
    IN  [missing_fields |-> Len(missing) > 0, missing |-> missing]

\* An approval gate that a VAT inconsistency blocks as well.
canApprove_VatBlocks(missing, vat, dateFailed) ==
    ~missing /\ ~vat.math_mismatch /\ ~vat.vat_inconsistent /\ ~dateFailed

\* const canApprove = ...  of processGeminiExtraction
canApprove(missing_fields, vatValidation, date_conversion_failed) ==
    ~missing_fields /\ ~vatValidation.math_mismatch /\ ~date_conversion_failed

\* a raw date was given and its conversion did not succeed
ConversionFailed(raw, date) ==
    ~Falsy(raw) /\ (date = NoDate \/ ~date.conversion_valid)

\* primaryDate?.bs_date || null
PrimaryBsDate(primaryDate) ==
    IF primaryDate = NoDate \/ primaryDate.bs_date = <<>> THEN NoStr
    ELSE primaryDate.bs_date

\* step 5: the processed data
ProcessedInvoiceData(extraction, workspaceId, transactionDate, billIssuingDate, primary, vendorNameEn, invoiceNumberEn, panValid, vatRate) ==
    [ vendor_name_en      |-> vendorNameEn,
      seller_pan          |-> extraction.seller_pan,
      pan_valid           |-> panValid,
      invoice_number_en   |-> invoiceNumberEn,
      transaction_date    |-> transactionDate,
      bill_issuing_date   |-> billIssuingDate,
      primary_date        |-> primary.date,
      primary_date_source |-> primary.source,
      taxable_amount      |-> extraction.taxable_amount,
      vat_amount          |-> extraction.vat_amount,
      vat_rate            |-> vatRate,
      grand_total         |-> extraction.grand_total,
      is_vat_invoice      |-> vatRate > 0,
      merge_key           |-> generateMergeKey_pipeline(
                                  workspaceId, vendorNameEn, invoiceNumberEn,
                                  PrimaryBsDate(primary.date)) ]

\* steps 6 to 8: the notes, the flags and the approval
InvoiceProcessingResult(extraction, txFailed, billFailed, panValid, vatValidation, data, required) ==
    LET date_conversion_failed == txFailed \/ billFailed
        panNoted == ~Falsy(extraction.seller_pan) /\ ~panValid
        notes == (IF txFailed THEN <<"Transaction date conversion failed">> ELSE <<>>)
                 \o (IF billFailed THEN <<"Bill issuing date conversion failed">>
                     ELSE <<>>)
                 \o (IF panNoted THEN <<"Invalid PAN format">> ELSE <<>>)
                 \o vatValidation.notes
                 \o (IF required.missing_fields THEN <<"Missing required fields">>
                     ELSE <<>>)
    IN  [ success |-> TRUE,
          data |-> data,
          flags |-> [ missing_fields         |-> required.missing_fields,
                      math_mismatch          |-> vatValidation.math_mismatch,
                      vat_inconsistent       |-> vatValidation.vat_inconsistent,
                      date_conversion_failed |-> date_conversion_failed,
                      date_mismatch          |-> FALSE,
                      duplicate_invoice      |-> FALSE,
                      pan_invalid            |-> ~panValid
                                                 /\ ~Falsy(extraction.seller_pan),
                      notes                  |-> notes ],
          can_approve |-> canApprove(required.missing_fields, vatValidation,
                                     date_conversion_failed) ]

\* step 6 on the data of step 5
CheckedData(extraction, txFailed, billFailed, panValid, vatValidation, data) ==
    InvoiceProcessingResult(extraction, txFailed, billFailed, panValid,
                            vatValidation, data, checkRequiredFields(data))

\* steps 4 and 5 on the normalized fields
ValidatedFields(extraction, workspaceId, transactionDate, billIssuingDate, primary, vendorNameEn, invoiceNumberEn, panValid, vatRate) ==
    CheckedData(extraction,
                ConversionFailed(extraction.transaction_date_raw, transactionDate),
                ConversionFailed(extraction.bill_issuing_date_raw, billIssuingDate),
                panValid,
                validateVAT(extraction.taxable_amount, extraction.vat_amount,
                            extraction.grand_total, vatRate),
                ProcessedInvoiceData(extraction, workspaceId, transactionDate,
                                     billIssuingDate, primary, vendorNameEn,
                                     invoiceNumberEn, panValid, vatRate))

\* the primary date of the two dates normalized
NormalizedDates(extraction, workspaceId, transactionDate, billIssuingDate) ==
    ValidatedFields(extraction, workspaceId, transactionDate, billIssuingDate,
                    determinePrimaryDate(transactionDate, billIssuingDate),
                    normalizeString(extraction.vendor_name_en),
                    convertNepaliDigits(normalizeString(extraction.invoice_number_en)),
                    validatePAN_pipeline(extraction.seller_pan),
                    inferVATRate(extraction.vat_amount, extraction.taxable_amount,
                                 extraction.vat_rate))

processGeminiExtraction(extraction, workspaceId) ==
    NormalizedDates(extraction, workspaceId,
                    normalizeDateField(extraction.transaction_date_raw,
                                       extraction.transaction_date_calendar),
                    normalizeDateField(extraction.bill_issuing_date_raw,
                                       extraction.bill_issuing_date_calendar))

\* canAutoApprove of lib/validation.ts
canAutoApprove(flags) ==
    ~flags.missing_fields /\ ~flags.math_mismatch /\ ~flags.date_conversion_failed

\* ---- the validation module (lib/validation.ts) -----------------------------

\* Tolerance for math comparisons in NPR
AMOUNT_TOLERANCE == 2

\* Valid VAT rates in Nepal
VALID_VAT_RATES == {0, 13}

\* x is null, undefined, NaN or 0:  !x  for a number | null
NoAmount(x) == x = NoNum \/ Val(x) = 0

\* checkMathMismatch reporting a mismatch without its note.
checkMathMismatch_NoNote(taxable, vat, total, tol) ==
    IF total = NoNum THEN [mismatch |-> FALSE, note |-> <<>>]
    ELSE [mismatch |-> Abs((OrZero(taxable) + OrZero(vat)) - Val(total)) > tol,
          note |-> <<>>]

\* checkMathMismatch counting a difference equal to the tolerance.
checkMathMismatch_AtTolerance(taxable, vat, total, tol) ==
    IF total = NoNum THEN [mismatch |-> FALSE, note |-> <<>>]
    ELSE IF Abs((OrZero(taxable) + OrZero(vat)) - Val(total)) >= tol
    THEN [mismatch |-> TRUE, note |-> <<"Math mismatch">>]
    ELSE [mismatch |-> FALSE, note |-> <<>>]

\* A note is <<>> (null) or <<text>>; of the text the model keeps the part
\* that does not depend on the amounts.
checkMathMismatch(taxableAmount, vatAmount, grandTotal, tolerance) ==
    IF grandTotal = NoNum THEN [mismatch |-> FALSE, note |-> <<>>]
    ELSE IF Abs((OrZero(taxableAmount) + OrZero(vatAmount)) - Val(grandTotal))
            > tolerance
    THEN [mismatch |-> TRUE, note |-> <<"Math mismatch">>]
    ELSE [mismatch |-> FALSE, note |-> <<>>]

\* |taxable * (rate / 100) - vat| > tolerance is written without the division
checkVatInconsistent(taxableAmount, vatAmount, vatRate, tolerance) ==
    IF NoAmount(vatRate) THEN [inconsistent |-> FALSE, note |-> <<>>]
    ELSE IF NoAmount(taxableAmount) THEN [inconsistent |-> FALSE, note |-> <<>>]
    ELSE IF vatAmount = NoNum THEN [inconsistent |-> FALSE, note |-> <<>>]
    ELSE IF Abs(Val(taxableAmount) * Val(vatRate) - Val(vatAmount) * 100)
            > tolerance * 100
    THEN [inconsistent |-> TRUE, note |-> <<"VAT inconsistent">>]
    ELSE [inconsistent |-> FALSE, note |-> <<>>]

\* inferVatRate returning whatever explicit rate it is given.
inferVatRate_AnyExplicitRate(taxable, vat, explicit) ==
    IF explicit # NoNum THEN Val(explicit)
    ELSE IF NoAmount(vat) THEN 0
    ELSE 13

\* inferVatRate of lib/validation.ts; |vat / taxable * 100 - 13| <= 1 is
\* written without the division
inferVatRate(taxableAmount, vatAmount, explicitRate) ==
    IF explicitRate # NoNum /\ Val(explicitRate) \in VALID_VAT_RATES
    THEN Val(explicitRate)
    ELSE IF NoAmount(vatAmount) THEN 0
    ELSE IF /\ ~NoAmount(taxableAmount) /\ Val(taxableAmount) > 0
            /\ Abs(Val(vatAmount) * 100 - 13 * Val(taxableAmount))
                   <= Val(taxableAmount)
    THEN 13
    ELSE 13

\* checkMissingFields testing the grand total the way it tests the strings.
checkMissingFields_ZeroTotalMissing(d) ==
    LET fields ==
            (IF Falsy(d.vendor_name_en) THEN <<"vendor_name">> ELSE <<>>)
            \o (IF Falsy(d.invoice_number_en) THEN <<"invoice_number">> ELSE <<>>)
            \o (IF d.primary_date = NoDate THEN <<"date">> ELSE <<>>)
            \o (IF NoAmount(d.grand_total) THEN <<"grand_total">> ELSE <<>>)
    IN  [missing |-> Len(fields) > 0, fields |-> fields]

\* primary_date is an object or null
checkMissingFields(data) ==
    LET fields ==
            (IF Falsy(data.vendor_name_en) THEN <<"vendor_name">> ELSE <<>>)
            \o (IF Falsy(data.invoice_number_en) THEN <<"invoice_number">> ELSE <<>>)
            \o (IF data.primary_date = NoDate THEN <<"date">> ELSE <<>>)
            \o (IF data.grand_total = NoNum THEN <<"grand_total">> ELSE <<>>)
    IN  [missing |-> Len(fields) > 0, fields |-> fields]

\* pan.replace(/\D/g, ''): \D is every character but the ASCII digits
PanDigits(pan) == KeepChars(pan, Range(ArabicDigits))

\* validatePAN of lib/validation.ts
validatePAN_validation(pan) ==
    IF Falsy(pan) THEN [valid |-> TRUE, normalized |-> NoStr, note |-> <<>>]
    ELSE IF Len(PanDigits(pan)) # 9
    THEN [valid |-> FALSE,
          normalized |-> (IF PanDigits(pan) = <<>> THEN NoStr ELSE PanDigits(pan)),
          note |-> <<"Invalid PAN format">>]
    ELSE [valid |-> TRUE, normalized |-> PanDigits(pan), note |-> <<>>]

\* the flag set of validateInvoice from the results of its four checks
InvoiceValidationFlags(data, missing, mathResult, vatResult, panResult) ==
    LET dateConversionFailed ==
            data.primary_date # NoDate /\ ~data.primary_date.conversion_valid
    IN  [ missing_fields         |-> missing.missing,
          math_mismatch          |-> mathResult.mismatch,
          vat_inconsistent       |-> vatResult.inconsistent,
          date_conversion_failed |-> dateConversionFailed,
          date_mismatch          |-> FALSE,
          duplicate_invoice      |-> FALSE,
          pan_invalid            |-> ~panResult.valid,
          notes |-> (IF missing.missing THEN <<"Missing required fields">>
                     ELSE <<>>)
                    \o mathResult.note \o vatResult.note \o panResult.note
                    \o (IF dateConversionFailed THEN <<"Date conversion failed">>
                        ELSE <<>>) ]

validateInvoice(data) ==
    InvoiceValidationFlags(
        data,
        checkMissingFields(data),
        checkMathMismatch(data.taxable_amount, data.vat_amount, data.grand_total,
                          AMOUNT_TOLERANCE),
        checkVatInconsistent(data.taxable_amount, data.vat_amount, data.vat_rate,
                             AMOUNT_TOLERANCE),
        validatePAN_validation(data.seller_pan))

\* ---- the inputs and the calls ----------------------------------------------

Acme == <<"A", "c", "m", "e">>
Pan9 == <<"3", "0", "1", "dv2", "dv3", "4", "5", "6", "7">>

\* <<raw text, calendar>> of the transaction date: BS 2082/09/07 in Nepali
\* digits, BS 2082/01/31 (Baisakh 2082 has 30 days), AD 2025-12-22,
\* AD 2025-02-30 (February has 28 days), no date
TransactionDateInputs ==
    ( { <<"dv2", "dv0", "dv8", "dv2", "/", "0", "9", "/", "0", "7">>,
        <<"2", "0", "8", "2", "-", "1", "-", "3", "1">>,
        <<"n", "/", "a">> } \X {"none", "BS", "AD"} )
    \cup { <<NoStr, "none">>,
           << <<"2", "0", "2", "5", "-", "1", "2", "-", "2", "2">>, "AD" >>,
           << <<"2", "0", "2", "5", "-", "0", "2", "-", "3", "0">>, "AD" >> }
BillIssuingDateInputs ==
    { <<NoStr, "none">>, << <<"2", "0", "8", "2", ".", "9", ".", "8">>, "none" >> }

Extraction(t, b, rest) ==
    [ transaction_date_raw       |-> t[1],
      transaction_date_calendar  |-> t[2],
      bill_issuing_date_raw      |-> b[1],
      bill_issuing_date_calendar |-> b[2],
      vendor_name_en             |-> rest.vendor_name_en,
      invoice_number_en          |-> rest.invoice_number_en,
      seller_pan                 |-> rest.seller_pan,
      taxable_amount             |-> rest.taxable_amount,
      vat_amount                 |-> rest.vat_amount,
      vat_rate                   |-> rest.vat_rate,
      grand_total                |-> rest.grand_total ]

Extractions ==
    { Extraction(t, b, rest) :
        t \in TransactionDateInputs, b \in BillIssuingDateInputs,
        rest \in [ vendor_name_en    : {NoStr, Acme, <<" ">>},
                   invoice_number_en : {NoStr, <<"dv1", "-", "A">>, <<"-">>},
                   seller_pan        : {NoStr, Pan9, <<"1", "2">>},
                   taxable_amount    : {NoNum, Num(1000)},
                   vat_amount        : {NoNum, Num(130), Num(100)},
                   vat_rate          : {NoNum, Num(13)},
                   grand_total       : {NoNum, Num(1130), Num(1100)} ] }

\* a PAN of nine Devanagari digits
PanDevanagari == <<"dv3", "dv0", "dv1", "dv2", "dv3", "dv4", "dv5", "dv6", "dv7">>

\* a primary date whose conversion succeeded, and one whose conversion failed
PrimaryDateInputs ==
    { NoDate,
      NormalizedDate(<<"2", "0", "8", "2", "/", "0", "9", "/", "0", "7">>, "BS",
                     <<"2", "0", "8", "2", "/", "0", "9", "/", "0", "7">>,
                     <<"2", "0", "2", "5", "-", "1", "2", "-", "2", "2">>, TRUE),
      NormalizedDate(<<"n", "/", "a">>, "BS", <<"n", "/", "a">>, <<>>, FALSE) }

\* the data given to validateInvoice
InvoiceData ==
    [ vendor_name_en    : {NoStr, Acme, <<>>},
      invoice_number_en : {NoStr, <<"1", "-", "A">>},
      primary_date      : PrimaryDateInputs,
      seller_pan        : {NoStr, Pan9, PanDevanagari, <<"1", "2">>},
      taxable_amount    : {NoNum, Num(1000), Num(0 - 1000)},
      vat_amount        : {NoNum, Num(130), Num(100)},
      vat_rate          : {NoNum, Num(13), Num(0)},
      grand_total       : {NoNum, Num(0), Num(1130), Num(1100)} ]

FlagSets ==
    [ missing_fields : BOOLEAN, math_mismatch : BOOLEAN, vat_inconsistent : BOOLEAN,
      date_conversion_failed : BOOLEAN, date_mismatch : {FALSE},
      duplicate_invoice : BOOLEAN, pan_invalid : BOOLEAN, notes : {<<>>} ]

PipeFunctions == {"processGeminiExtraction", "canAutoApprove", "validateInvoice"}

PipeIdle ==
    /\ pipeIn = [kind |-> "none"]
    /\ pipeOut = [f \in PipeFunctions |-> NoDate]
    /\ pipeDone = PipeFunctions

PipeInit ==
    /\ pipeIn \in [kind : {"extraction"}, extraction : Extractions,
                   workspaceId : {<<"w", "1">>}]
                  \cup [kind : {"flags"}, flags : FlagSets]
                  \cup [kind : {"invoice"}, data : InvoiceData]
    /\ pipeOut = [f \in PipeFunctions |-> NoDate]
    /\ pipeDone = {}

PipeReturns(f, result) ==
    /\ f \notin pipeDone
    /\ pipeOut' = [pipeOut EXCEPT ![f] = result]
    /\ pipeDone' = pipeDone \cup {f}
    /\ UNCHANGED <<pipeIn, mergeVars, keyVars, calVars, fnVars, appVars>>

CallProcessGeminiExtraction ==
    /\ pipeIn.kind = "extraction"
    /\ PipeReturns("processGeminiExtraction",
                   processGeminiExtraction(pipeIn.extraction, pipeIn.workspaceId))

\* canAutoApprove on the flag set given, or on the flags the pipeline returned
CallCanAutoApprove ==
    \/ /\ pipeIn.kind = "flags"
       /\ PipeReturns("canAutoApprove", [value |-> canAutoApprove(pipeIn.flags)])
    \/ /\ pipeIn.kind = "extraction" /\ "processGeminiExtraction" \in pipeDone
       /\ PipeReturns("canAutoApprove",
              [value |-> canAutoApprove(pipeOut["processGeminiExtraction"].flags)])

CallValidateInvoice ==
    /\ pipeIn.kind = "invoice"
    /\ PipeReturns("validateInvoice", validateInvoice(pipeIn.data))

PipeNext == CallProcessGeminiExtraction \/ CallCanAutoApprove \/ CallValidateInvoice

(***************************************************************************)
(* PART 5.  Functions called on their own: the checks of lib/validation.ts, *)
(* the two getFiscalYear, the date parsers and normalizeVendorName          *)
(***************************************************************************)

\* getFiscalYear of lib/nepaliCalendar.ts, on a BS date
getFiscalYear(bs) ==
    IF bs.month >= 4
    THEN NumToString(bs.year) \o <<"/">> \o padStart2(NumToString((bs.year + 1) % 100))
    ELSE NumToString(bs.year - 1) \o <<"/">> \o padStart2(NumToString(bs.year % 100))

\* bsDate.match(/^(\d{4})\/(\d{2})/)
FiscalMatch(bsDate) ==
    /\ Len(bsDate) >= 7
    /\ \A i \in 1..7 : IF i = 5 THEN bsDate[i] = "/"
                       ELSE bsDate[i] \in Range(ArabicDigits)

\* the fiscal year of the year and month matched
FiscalYearOf(year, month) ==
    IF month >= 4
    THEN NumToString(year) \o <<"/">> \o NumToString((year + 1) % 100)
    ELSE NumToString(year - 1) \o <<"/">> \o NumToString(year % 100)

\* getFiscalYear of lib/export.ts, on a BS date string
getFiscalYear_export(bsDate) ==
    IF Falsy(bsDate) THEN NoStr
    ELSE IF ~FiscalMatch(bsDate) THEN NoStr
    ELSE FiscalYearOf(Val(parseInt(SubSeq(bsDate, 1, 4))),
                      Val(parseInt(SubSeq(bsDate, 6, 7))))

(***************************************************************************)
(* The calls: each function on arguments drawn from small sets              *)
(***************************************************************************)

\* amounts as parseAmount yields them: null, zero, positive or negative
TaxableInputs == {NoNum, Num(0), Num(1000), Num(0 - 1000)}
VatInputs == {NoNum, Num(0), Num(100), Num(127), Num(128), Num(130), Num(133), Num(0 - 130)}
TotalInputs == {NoNum, Num(0), Num(1100), Num(1130), Num(1131), Num(1132), Num(1133), Num(1200)}
RateInputs == {NoNum, Num(0), Num(5), Num(13), Num(15), Num(0 - 13)}
ToleranceInputs == {AMOUNT_TOLERANCE, 0}

\* a date as printed on an invoice: its numbers, its separator, padded or not
SeparatorInputs == {"/", "-", "."}
DateYearInputs == {2025, 2082}
DateMonthInputs == {0, 1, 9, 12, 13}
DateDayInputs == {0, 7, 28, 31, 32, 33}
DateText(year, month, day, sep, padded) ==
    LET m == IF padded THEN padStart2(NumToString(month)) ELSE NumToString(month)
        d == IF padded THEN padStart2(NumToString(day)) ELSE NumToString(day)
    IN  NumToString(year) \o <<sep>> \o m \o <<sep>> \o d

\* vendor names: a name followed by up to two corporate suffixes
VendorBase == <<"A", "c", "m", "e">>
SuffixInputs == Range(suffixes)
VendorNames ==
    {VendorBase, <<" ">> \o VendorBase \o <<" ", " ", "L", "t", "d", " ">>}
    \cup {VendorBase \o <<" ">> \o s : s \in SuffixInputs}
    \cup {VendorBase \o <<" ">> \o s \o <<" ">> \o t : s \in SuffixInputs, t \in SuffixInputs}

\* BS dates over the whole range of the calendar
FiscalDateInputs == [year : PkgFirstYear..PkgLastYear, month : 1..12, day : {1, 32}]

FnFunctions == {"checkMathMismatch", "checkVatInconsistent", "inferVatRate", "inferVATRate", "getFiscalYear", "getFiscalYear_export", "parseBSDate", "parseADDate", "normalizeVendorName"}

FnIdle ==
    /\ fnIn = [kind |-> "none"]
    /\ fnOut = [f \in FnFunctions |-> NoDate]
    /\ fnDone = {}

FnInit ==
    /\ fnIn \in [kind : {"math"}, taxable : TaxableInputs, vat : VatInputs, total : TotalInputs, tolerance : ToleranceInputs]
          \cup [kind : {"vat"}, taxable : TaxableInputs, vat : VatInputs, rate : RateInputs, tolerance : ToleranceInputs]
          \cup [kind : {"rate"}, taxable : TaxableInputs, vat : VatInputs, rate : RateInputs]
          \cup [kind : {"fiscal"}, bs : FiscalDateInputs]
          \cup [kind : {"date"}, year : DateYearInputs, month : DateMonthInputs, day : DateDayInputs, sep : SeparatorInputs, padded : BOOLEAN]
          \cup [kind : {"vendor"}, name : VendorNames]
    /\ fnOut = [f \in FnFunctions |-> NoDate]
    /\ fnDone = {}

FnReturns(f, result) ==
    /\ f \notin fnDone
    /\ fnOut' = [fnOut EXCEPT ![f] = result]
    /\ fnDone' = fnDone \cup {f}
    /\ UNCHANGED <<fnIn, mergeVars, keyVars, calVars, pipeVars, appVars>>

CallCheckMathMismatch ==
    /\ fnIn.kind = "math"
    /\ FnReturns("checkMathMismatch", checkMathMismatch(fnIn.taxable, fnIn.vat, fnIn.total, fnIn.tolerance))

CallCheckVatInconsistent ==
    /\ fnIn.kind = "vat"
    /\ FnReturns("checkVatInconsistent", checkVatInconsistent(fnIn.taxable, fnIn.vat, fnIn.rate, fnIn.tolerance))

CallInferVatRate ==
    /\ fnIn.kind = "rate"
    /\ FnReturns("inferVatRate", inferVatRate(fnIn.taxable, fnIn.vat, fnIn.rate))

CallInferVATRate ==
    /\ fnIn.kind = "rate"
    /\ FnReturns("inferVATRate", inferVATRate(fnIn.vat, fnIn.taxable, fnIn.rate))

CallGetFiscalYear ==
    /\ fnIn.kind = "fiscal"
    /\ FnReturns("getFiscalYear", getFiscalYear(fnIn.bs))

CallGetFiscalYearExport ==
    /\ fnIn.kind = "fiscal"
    /\ FnReturns("getFiscalYear_export", getFiscalYear_export(formatBSDate(fnIn.bs)))

CallParseBSDate ==
    /\ fnIn.kind = "date"
    /\ FnReturns("parseBSDate", parseBSDate(DateText(fnIn.year, fnIn.month, fnIn.day, fnIn.sep, fnIn.padded)))

CallParseADDate ==
    /\ fnIn.kind = "date"
    /\ FnReturns("parseADDate", parseADDate(DateText(fnIn.year, fnIn.month, fnIn.day, fnIn.sep, fnIn.padded)))

CallNormalizeVendorName ==
    /\ fnIn.kind = "vendor"
    /\ FnReturns("normalizeVendorName", normalizeVendorName(fnIn.name))

FnNext ==
    \/ CallCheckMathMismatch
    \/ CallCheckVatInconsistent
    \/ CallInferVatRate
    \/ CallInferVATRate
    \/ CallGetFiscalYear
    \/ CallGetFiscalYearExport
    \/ CallParseBSDate
    \/ CallParseADDate
    \/ CallNormalizeVendorName

(***************************************************************************)
(* PART 6.  The application around the store: the process-invoice function  *)
(* with its queue, POST /api/invoices/create, POST /api/invoices/approve    *)
(* and the review screen                                                    *)
(***************************************************************************)

MaxTasks == 1
Tasks == 1..MaxTasks

\* the invoice rows the application may create
MaxAppInvoices == 2
AppInvIds == 1..MaxAppInvoices

\* the variables of the merge that the application leaves alone
mergeRest == <<invoice_flags, extractions, workerVars, callM, callPages, writeFailed,
               merged, reinvoked>>

\* gen_random_uuid(): an id never used, here the lowest one
FreshIds == {i \in AppInvIds \ usedIds : \A j \in AppInvIds : j < i => j \in usedIds}

\* ---- the process-invoice function ------------------------------------------

\* what the model returns for the image: JSON.parse(rawContent)
ExtractedInputs ==
    [ vendor_name    : {NULL, "Acme"},
      invoice_number : {"INV1"},
      taxable_amount : {Num(1000)},
      vat_amount     : {Num(130)},
      grand_total    : {Num(1130), Num(1200)},
      otherCharges   : {0} ]

\* Math.abs((taxable + vat + otherChargesTotal) - total) > 1.0
isMathMismatch(x) ==
    Abs((OrZero(x.taxable_amount) + OrZero(x.vat_amount) + x.otherCharges)
        - OrZero(x.grand_total)) > 1

\* Math.abs(vat - (taxable * 0.13)) > (taxable * 0.01), times 100
isVatInconsistent(x) ==
    Abs(OrZero(x.vat_amount) * 100 - OrZero(x.taxable_amount) * 13)
        > OrZero(x.taxable_amount)

\* !extracted.invoice_number || !extracted.vendor_name
isMissingFields(x) == x.invoice_number \in {NULL, ""} \/ x.vendor_name \in {NULL, ""}

\* the row process-invoice inserts into invoices
ProcessedRow(x) ==
    [ vendor_name_en    |-> x.vendor_name,
      invoice_number_en |-> x.invoice_number,
      taxable_amount    |-> OrZero(x.taxable_amount),
      vat_amount        |-> OrZero(x.vat_amount),
      grand_total       |-> OrZero(x.grand_total),
      flags             |-> [ math_mismatch    |-> isMathMismatch(x),
                              vat_inconsistent |-> isVatInconsistent(x),
                              missing_fields   |-> isMissingFields(x) ],
      status            |-> IF isMathMismatch(x) \/ isVatInconsistent(x)
                               \/ isMissingFields(x)
                            THEN "pending_review" ELSE "approved" ]

\* the body of the request: { record: row } of the trigger; a body that has
\* been read cannot be read again, and .catch(() => ({})) gives {}
RequestBody(t, bodyUsed) == IF bodyUsed THEN [record |-> [none |-> TRUE]] ELSE [record |-> [id |-> t]]

NoRun == [pc |-> "none", bodyUsed |-> FALSE, extracted |-> NULL, error |-> NULL, inserted |-> FALSE, response |-> 0]

TaskStep(t, from, to) ==
    /\ taskRun[t].pc = from
    /\ taskRun' = [taskRun EXCEPT ![t] = to]

\* throw: the catch block is entered with the error
Thrown500(t, from, message) ==
    TaskStep(t, from, [taskRun[t] EXCEPT !.pc = "catch", !.error = message])

\* The client inserts the task as 'pending'; the AFTER INSERT trigger posts
\* the row to the function.
EnqueueTask(t) ==
    /\ t \notin DOMAIN queue
    /\ queue' = [u \in DOMAIN queue \cup {t} |->
                    IF u = t THEN [status |-> "pending", error_message |-> NULL]
                    ELSE queue[u]]
    /\ taskRun' = [taskRun EXCEPT ![t] = [NoRun EXCEPT !.pc = "start"]]
    /\ UNCHANGED <<files, createRun, client, approveRes>>
    /\ UNCHANGED <<mergeVars, keyVars, calVars, pipeVars, fnVars>>

\* const payload = await req.json(); const task = payload.record || payload
ReadPayload(t) ==
    /\ TaskStep(t, "start", [taskRun[t] EXCEPT !.pc = "download", !.bodyUsed = TRUE])
    /\ UNCHANGED <<queue, files, createRun, client, approveRes>>
    /\ UNCHANGED <<mergeVars, keyVars, calVars, pipeVars, fnVars>>

\* 1. download the image: if (downloadError) throw downloadError
Download(t) ==
    /\ \/ TaskStep(t, "download", [taskRun[t] EXCEPT !.pc = "extract"])
       \/ Thrown500(t, "download", "Object not found")
    /\ UNCHANGED <<queue, files, createRun, client, approveRes>>
    /\ UNCHANGED <<mergeVars, keyVars, calVars, pipeVars, fnVars>>

\* 2. the extraction call and JSON.parse of its answer
Extract(t) ==
    /\ \/ \E x \in ExtractedInputs :
              TaskStep(t, "extract", [taskRun[t] EXCEPT !.pc = "insert", !.extracted = x])
       \/ Thrown500(t, "extract", "OpenRouter API Error")
       \/ Thrown500(t, "extract", "Unexpected token in JSON")
    /\ UNCHANGED <<queue, files, createRun, client, approveRes>>
    /\ UNCHANGED <<mergeVars, keyVars, calVars, pipeVars, fnVars>>

\* 3. and 4. the flags, and the insert into invoices
InsertProcessed(t) ==
    /\ \/ \E i \in FreshIds :
              /\ TaskStep(t, "insert", [taskRun[t] EXCEPT !.pc = "update", !.inserted = TRUE])
              /\ invoices' = [j \in DOMAIN invoices \cup {i} |->
                                 IF j = i THEN ProcessedRow(taskRun[t].extracted)
                                 ELSE invoices[j]]
              /\ usedIds' = usedIds \cup {i}
       \/ /\ Thrown500(t, "insert", "insert failed")
          /\ UNCHANGED <<invoices, usedIds>>
    /\ UNCHANGED <<queue, files, createRun, client, approveRes>>
    /\ UNCHANGED <<invoice_pages, faults, mergeRest, keyVars, calVars, pipeVars, fnVars>>

\* 5. update the queue row to 'completed'; the result is not looked at
CompleteTask(t) ==
    /\ \/ /\ TaskStep(t, "update", [taskRun[t] EXCEPT !.pc = "returned", !.extracted = NULL, !.response = 200])
          /\ queue' = [queue EXCEPT ![t].status = "completed"]
       \/ \* the update resolves with {error}
          /\ TaskStep(t, "update", [taskRun[t] EXCEPT !.pc = "returned", !.extracted = NULL, !.response = 200])
          /\ UNCHANGED queue
       \/ /\ Thrown500(t, "update", "fetch failed")
          /\ UNCHANGED queue
    /\ UNCHANGED <<files, createRun, client, approveRes>>
    /\ UNCHANGED <<mergeVars, keyVars, calVars, pipeVars, fnVars>>

\* catch (error): read the body again for task.id, set the row to 'failed'
\* if there is one, answer 500
CatchError(t) ==
    /\ TaskStep(t, "catch", [taskRun[t] EXCEPT !.pc = "returned", !.extracted = NULL, !.response = 500])
    /\ IF "id" \in DOMAIN RequestBody(t, taskRun[t].bodyUsed).record
       THEN queue' = [queue EXCEPT ![t] = [status |-> "failed", error_message |-> taskRun[t].error]]
       ELSE UNCHANGED queue
    /\ UNCHANGED <<files, createRun, client, approveRes>>
    /\ UNCHANGED <<mergeVars, keyVars, calVars, pipeVars, fnVars>>

\* ---- POST /api/invoices/approve -------------------------------------------

\* fetch the invoice (404), check the membership (403), set status to
\* 'approved' (500 when the update fails)
Approve(i) ==
    /\ \/ /\ i \notin DOMAIN invoices
          /\ approveRes' = 404
          /\ UNCHANGED invoices
       \/ /\ i \in DOMAIN invoices
          /\ \/ /\ approveRes' = 403
                /\ UNCHANGED invoices
             \/ /\ approveRes' = 500
                /\ UNCHANGED invoices
             \/ /\ approveRes' = 200
                /\ invoices' = [invoices EXCEPT ![i].status = "approved"]
    /\ UNCHANGED <<queue, files, taskRun, createRun, client>>
    /\ UNCHANGED <<invoice_pages, usedIds, faults, mergeRest, keyVars, calVars, pipeVars, fnVars>>

\* ---- POST /api/invoices/create ----------------------------------------------

\* a page of the request: base64, mimeType and pageNo all given, or not
Page(v, no) == [valid |-> v, pageNo |-> no]

PagesInputs ==
    { <<Page(TRUE, 1)>>, <<Page(FALSE, 1)>>, <<Page(TRUE, 1), Page(TRUE, 2)>>,
      <<Page(TRUE, 1), Page(FALSE, 2)>>, <<Page(TRUE, 1), Page(TRUE, 1)>>,
      <<Page(TRUE, 1), Page(TRUE, 2), Page(TRUE, 2)>> }

\* insert({ workspace_id, status: 'pending_review' }): the other columns are null
CreatedRow ==
    [ vendor_name_en    |-> NULL,
      invoice_number_en |-> NULL,
      taxable_amount    |-> 0,
      vat_amount        |-> 0,
      grand_total       |-> 0,
      flags             |-> [ math_mismatch |-> FALSE, vat_inconsistent |-> FALSE,
                              missing_fields |-> FALSE ],
      status            |-> "pending_review" ]

NoCreate == [pc |-> "none", pages |-> <<>>, i |-> 0, invoiceId |-> 0, uploaded |-> {}, response |-> 0]

CreateStep(from, to) ==
    /\ createRun.pc = from
    /\ createRun' = to

Responded(from, code) == CreateStep(from, [createRun EXCEPT !.pc = "returned", !.response = code])

\* `${workspaceId}/${invoice.id}/${pageNo}.${ext}`
storagePath(invoiceId, pageNo) == <<invoiceId, pageNo>>

\* delete().eq('id', id) on invoices, invoice_pages going with it (on delete
\* cascade)
DeleteInvoice(id) ==
    /\ invoices' = Restrict(invoices, DOMAIN invoices \ {id})
    /\ invoice_pages' = CascadePages(invoice_pages, id)

\* the rollback of the route: the result of the delete is not looked at
RollbackInvoice(id) ==
    \/ DeleteInvoice(id)
    \/ UNCHANGED <<invoices, invoice_pages>>

\* 1.-4. the checks of the request and the insert of the invoice row
CreateInvoice(pages) ==
    /\ createRun.pc \in {"none", "returned"}
    /\ \/ /\ Len(pages) > 2
          /\ createRun' = [NoCreate EXCEPT !.pc = "returned", !.pages = pages, !.response = 400]
          /\ UNCHANGED <<invoices, usedIds>>
       \/ /\ Len(pages) <= 2
          /\ \/ \E id \in FreshIds :
                    /\ createRun' = [NoCreate EXCEPT !.pc = "page", !.pages = pages, !.i = 1,
                                                     !.invoiceId = id]
                    /\ invoices' = [j \in DOMAIN invoices \cup {id} |->
                                       IF j = id THEN CreatedRow ELSE invoices[j]]
                    /\ usedIds' = usedIds \cup {id}
             \/ /\ createRun' = [NoCreate EXCEPT !.pc = "returned", !.pages = pages,
                                                 !.response = 500]
                /\ UNCHANGED <<invoices, usedIds>>
    /\ UNCHANGED <<queue, files, taskRun, client, approveRes>>
    /\ UNCHANGED <<invoice_pages, faults, mergeRest, keyVars, calVars, pipeVars, fnVars>>

\* for (const page of pages): the check of the page's data, or the answer
\* after the last page
NextPage ==
    /\ createRun.pc = "page"
    /\ IF createRun.i > Len(createRun.pages)
       THEN /\ Responded("page", 200)
            /\ UNCHANGED <<invoices, invoice_pages>>
       ELSE IF ~createRun.pages[createRun.i].valid
       THEN \/ /\ Responded("page", 400)
               /\ RollbackInvoice(createRun.invoiceId)
            \/ \* the delete rejects: the outer catch answers
               /\ Responded("page", 500)
               /\ UNCHANGED <<invoices, invoice_pages>>
       ELSE /\ CreateStep("page", [createRun EXCEPT !.pc = "upload"])
            /\ UNCHANGED <<invoices, invoice_pages>>
    /\ UNCHANGED <<queue, files, taskRun, client, approveRes>>
    /\ UNCHANGED <<usedIds, faults, mergeRest, keyVars, calVars, pipeVars, fnVars>>

\* storage.upload(storagePath, buffer, { upsert: false })
UploadPage ==
    /\ createRun.pc = "upload"
    /\ LET path == storagePath(createRun.invoiceId, createRun.pages[createRun.i].pageNo)
       IN  \/ /\ path \notin files
              /\ files' = files \cup {path}
              /\ CreateStep("upload", [createRun EXCEPT !.pc = "insertPage",
                                          !.uploaded = createRun.uploaded \cup {path}])
              /\ UNCHANGED <<invoices, invoice_pages>>
           \/ \* uploadError: the object exists already, or the storage failed
              /\ Responded("upload", 500)
              /\ RollbackInvoice(createRun.invoiceId)
              /\ UNCHANGED files
    /\ UNCHANGED <<queue, taskRun, client, approveRes>>
    /\ UNCHANGED <<usedIds, faults, mergeRest, keyVars, calVars, pipeVars, fnVars>>

\* insert into invoice_pages; on pageError remove this page's file and
\* delete the invoice
InsertPage ==
    /\ createRun.pc = "insertPage"
    /\ LET id == createRun.invoiceId
           no == createRun.pages[createRun.i].pageNo
       IN  \/ /\ id \in DOMAIN invoices
              /\ <<id, no>> \notin DOMAIN invoice_pages
              /\ invoice_pages' = [p \in DOMAIN invoice_pages \cup {<<id, no>>} |->
                                      IF p = <<id, no>> THEN [invoice_id |-> id, page_no |-> no]
                                      ELSE invoice_pages[p]]
              /\ CreateStep("insertPage", [createRun EXCEPT !.pc = "page", !.i = createRun.i + 1])
              /\ UNCHANGED <<invoices, files>>
           \/ \* pageError
              /\ Responded("insertPage", 500)
              /\ \/ files' = files \ {storagePath(id, no)}
                 \/ UNCHANGED files
              /\ RollbackInvoice(id)
    /\ UNCHANGED <<queue, taskRun, client, approveRes>>
    /\ UNCHANGED <<usedIds, faults, mergeRest, keyVars, calVars, pipeVars, fnVars>>

\* ---- the review screen ---------------------------------------------------------

\* "Map DB Invoice to Frontend Type"
MappedInvoice(inv) ==
    [ vendor_name    |-> inv.vendor_name_en,
      invoice_number |-> inv.invoice_number_en,
      taxable_amount |-> inv.taxable_amount,
      vat_amount     |-> inv.vat_amount,
      grand_total    |-> inv.grand_total,
      flags          |-> inv.flags,
      status         |-> inv.status ]

NoForm == [none |-> TRUE]

\* what the reviewer types into a field of the form
FieldInputs ==
    { <<"vendor_name", "text", "Acme">>, <<"vendor_name", "text", "">>,
      <<"grand_total", "number", "1130">>, <<"grand_total", "number", "">> }

\* parseFloat(value) || 0  for the texts of FieldInputs
parseFloatOrZero(value) ==
    CASE value = "1130" -> 1130
      [] value = "1200" -> 1200
      [] OTHER          -> 0

\* { ...prev, [name]: type === 'number' ? parseFloat(value) || 0 : value }
ChangedForm(form, name, type, value) ==
    [f \in DOMAIN form |->
        IF f = name THEN (IF type = "number" THEN parseFloatOrZero(value) ELSE value)
        ELSE form[f]]

\* { ...formData, status: APPROVED, flags: { all false } }
ApprovedForm(form) ==
    [form EXCEPT !.status = "approved",
                 !.flags = [math_mismatch |-> FALSE, vat_inconsistent |-> FALSE,
                            missing_fields |-> FALSE]]

\* updateWorkspaceAndLoadInvoices: setInvoices(mapped)
LoadInvoices ==
    /\ client.reviewing = 0
    /\ client' = [client EXCEPT !.invoices = [i \in DOMAIN invoices |-> MappedInvoice(invoices[i])],
                                !.reviewed = {}]
    /\ UNCHANGED <<queue, files, taskRun, createRun, approveRes>>
    /\ UNCHANGED <<mergeVars, keyVars, calVars, pipeVars, fnVars>>

\* onReview={setReviewingInvoice}: the form starts as a copy of the invoice
OpenReview(i) ==
    /\ client.reviewing = 0
    /\ i \in DOMAIN client.invoices
    /\ client' = [client EXCEPT !.reviewing = i, !.formData = client.invoices[i],
                                !.wasFlagged = \E f \in DOMAIN client.invoices[i].flags :
                                                   client.invoices[i].flags[f],
                                !.edited = FALSE]
    /\ UNCHANGED <<queue, files, taskRun, createRun, approveRes>>
    /\ UNCHANGED <<mergeVars, keyVars, calVars, pipeVars, fnVars>>

HandleChange(name, type, value) ==
    /\ client.reviewing # 0
    /\ client' = [client EXCEPT !.formData = ChangedForm(client.formData, name, type, value),
                                !.edited = TRUE]
    /\ UNCHANGED <<queue, files, taskRun, createRun, approveRes>>
    /\ UNCHANGED <<mergeVars, keyVars, calVars, pipeVars, fnVars>>

\* handleApprove, with handleSaveReview as its onSave: the invoice of the
\* list is overwritten with the form, nothing is sent to the server
HandleApprove ==
    /\ client.reviewing # 0
    /\ client' = [client EXCEPT
                     !.invoices = [i \in DOMAIN client.invoices |->
                                      IF i = client.reviewing THEN ApprovedForm(client.formData)
                                      ELSE client.invoices[i]],
                     !.reviewing = 0,
                     !.formData = NoForm,
                     !.reviewed = IF client.wasFlagged /\ client.edited
                                  THEN client.reviewed \cup {client.reviewing}
                                  ELSE client.reviewed]
    /\ UNCHANGED <<queue, files, taskRun, createRun, approveRes>>
    /\ UNCHANGED <<mergeVars, keyVars, calVars, pipeVars, fnVars>>

\* onCancel={() => setReviewingInvoice(null)}
CancelReview ==
    /\ client.reviewing # 0
    /\ client' = [client EXCEPT !.reviewing = 0, !.formData = NoForm]
    /\ UNCHANGED <<queue, files, taskRun, createRun, approveRes>>
    /\ UNCHANGED <<mergeVars, keyVars, calVars, pipeVars, fnVars>>

\* ---- Init and Next --------------------------------------------------------------

AppIdle ==
    /\ queue = <<>>
    /\ files = {}
    /\ taskRun = [t \in Tasks |-> NoRun]
    /\ createRun = NoCreate
    /\ client = [invoices |-> <<>>, reviewing |-> 0, formData |-> NoForm, reviewed |-> {},
                 wasFlagged |-> FALSE, edited |-> FALSE]
    /\ approveRes = 0

AppNext ==
    \/ \E t \in Tasks : EnqueueTask(t)
    \/ \E t \in Tasks : ReadPayload(t)
    \/ \E t \in Tasks : Download(t)
    \/ \E t \in Tasks : Extract(t)
    \/ \E t \in Tasks : InsertProcessed(t)
    \/ \E t \in Tasks : CompleteTask(t)
    \/ \E t \in Tasks : CatchError(t)
    \/ \E i \in AppInvIds : Approve(i)
    \/ LoadInvoices
    \/ \E e \in FieldInputs : HandleChange(e[1], e[2], e[3])
    \/ \E i \in AppInvIds : OpenReview(i)
    \/ HandleApprove
    \/ CancelReview

CreateNext ==
    \/ \E pages \in PagesInputs : CreateInvoice(pages)
    \/ NextPage
    \/ UploadPage
    \/ InsertPage
    \/ \E i \in AppInvIds : Approve(i)

(***************************************************************************)
(* The specifications                                                      *)
(***************************************************************************)

\* the store with concurrent pipeline runs and calls of executeAutoMerge
InitMerge == MergeInit /\ KeyIdle /\ CalIdle /\ PkgIdle /\ PipeIdle /\ FnIdle /\ AppIdle
SpecMerge == InitMerge /\ [][MergeNext]_vars

\* the two generateMergeKey on generated inputs
InitKey == MergeInit /\ KeyInit /\ CalIdle /\ PkgIdle /\ PipeIdle /\ FnIdle /\ AppIdle
SpecKey == InitKey /\ [][KeyNext]_vars

\* bsToAd and adToBs on generated dates, each followed by the other
InitCal == MergeInit /\ KeyIdle /\ CalInit /\ PkgInit /\ PipeIdle /\ FnIdle /\ AppIdle
SpecCal == InitCal /\ [][CalNext]_vars

\* processGeminiExtraction and canAutoApprove on generated extractions and flags
InitPipe == MergeInit /\ KeyIdle /\ CalIdle /\ PkgInit /\ PipeInit /\ FnIdle /\ AppIdle
SpecPipe == InitPipe /\ [][PipeNext]_vars


\* the functions called on their own
InitFn == MergeInit /\ KeyIdle /\ CalIdle /\ PkgIdle /\ PipeIdle /\ FnInit /\ AppIdle
SpecFn == InitFn /\ [][FnNext]_vars

\* the application: the queue and process-invoice, the approve route, the
\* review screen
InitApp == MergeInit /\ KeyIdle /\ CalIdle /\ PkgIdle /\ PipeIdle /\ FnIdle /\ AppIdle
SpecApp == InitApp /\ [][AppNext]_vars

\* the create route, with the approve route beside it
InitCreate == MergeInit /\ KeyIdle /\ CalIdle /\ PkgIdle /\ PipeIdle /\ FnIdle /\ AppIdle
SpecCreate == InitCreate /\ [][CreateNext]_vars
\* ---- claims about the merge -------------------------------------------

InMerge(w) == pc[w] \in {"readMax", "readDup", "move", "delete"}

\* worker w takes a step of executeAutoMerge
MergeStep(w) == InMerge(w) /\ (pc'[w] # pc[w] \/ idx'[w] # idx[w])

WithKey(k) == {i \in DOMAIN invoices : invoices[i].merge_key = k}

\* C1: two pipeline runs for two invoices with the identical merge_key, each
\* doing checkForMergeCandidate and then executeAutoMerge on what it found:
\* once both have finished, exactly one invoice with that key survives.
C1_ExactlyOneSurvivor ==
    \A w1, w2 \in Workers :
        ( /\ w1 # w2
          /\ pc[w1] = "done" /\ pc[w2] = "done"
          /\ mode[w1] = "run" /\ mode[w2] = "run"
          /\ mergeKey[w1] # NULL /\ mergeKey[w1] = mergeKey[w2]
          /\ duplicateInvoiceId[w1] # duplicateInvoiceId[w2]
          /\ usedIds = {duplicateInvoiceId[w1], duplicateInvoiceId[w2]}
          /\ faults = 0 )
        => Cardinality(WithKey(mergeKey[w1])) = 1

\* C2: when executeAutoMerge(existing, duplicate) returns true, the duplicate
\* having held N >= 1 pages and M being the existing invoice's highest page
\* number before the call, the N pages are on the existing invoice at
\* M+1 .. M+N in their former order and the duplicate record is gone.
C2_PagesMovedInOrder ==
    [][ \A w \in Workers :
          ( /\ pc[w] = "delete" /\ pc'[w] = "done" /\ ret'[w] = "true"
            /\ Len(callPages[w]) >= 1 )
          => /\ duplicateInvoiceId[w] \notin DOMAIN invoices'
             /\ \A k \in 1..Len(callPages[w]) :
                   /\ callPages[w][k] \in DOMAIN invoice_pages'
                   /\ invoice_pages'[callPages[w][k]] =
                        [invoice_id |-> existingInvoiceId[w],
                         page_no    |-> callM[w] + k]
      ]_vars

\* C3: a merge that stopped part-way (a page reassignment failed, or the
\* deletion of the duplicate failed) returns false, never true.
C3_PartialFailureReported ==
    \A w \in Workers : (pc[w] = "done" /\ writeFailed[w]) => ret[w] = "false"

\* C4: executeAutoMerge(existing, duplicate) called again after a merge of
\* the same pair has succeeded (it returned true and the duplicate is gone)
\* changes nothing in the store: no page, no invoice, no flag, no extraction.
C4_ReinvokeIsNoOp ==
    [][ \A w \in Workers :
          (reinvoked[w] /\ MergeStep(w)) => UNCHANGED storeVars ]_vars

\* the second call on a merged pair has run to its end
C4_Witness ==
    \E w \in Workers :
        /\ reinvoked[w] /\ pc[w] = "done" /\ ret[w] = "false"
        /\ <<existingInvoiceId[w], duplicateInvoiceId[w]>> \in merged
        /\ PagesOf(invoice_pages, existingInvoiceId[w]) # {}

\* C5: a step of executeAutoMerge writes page rows and removes the duplicate
\* invoice only: every other invoice row (the survivor's above all, approved
\* or not), flag row and extraction row is the same after the step.
C5_SurvivorUntouched ==
    [][ \A w \in Workers :
          MergeStep(w) =>
            \A j \in InvIds \ {duplicateInvoiceId[w]} :
               /\ j \in DOMAIN invoices =>
                    (j \in DOMAIN invoices' /\ invoices'[j] = invoices[j])
               /\ j \in DOMAIN invoice_flags =>
                    (j \in DOMAIN invoice_flags' /\ invoice_flags'[j] = invoice_flags[j])
               /\ j \in DOMAIN extractions =>
                    (j \in DOMAIN extractions' /\ extractions'[j] = extractions[j])
      ]_vars

\* a merge into an approved survivor has returned true with a page moved
C5_Witness ==
    \E w \in Workers :
        /\ pc[w] = "done" /\ ret[w] = "true"
        /\ existingInvoiceId[w] \in DOMAIN invoices
        /\ invoices[existingInvoiceId[w]].status = "approved"
        /\ duplicateInvoiceId[w] \notin DOMAIN invoices
        /\ \E p \in DOMAIN invoice_pages :
              p[1] = duplicateInvoiceId[w]
              /\ invoice_pages[p].invoice_id = existingInvoiceId[w]

\* ---- claims about the merge key -----------------------------------------

\* C6: every non-null merge key a generateMergeKey returned, split on '|',
\* has exactly four components and none of them is empty.
C6_KeyHasFourComponents ==
    \A f \in keyDone :
        keyOut[f] # NoStr =>
            /\ Len(split(keyOut[f], "|")) = 4
            /\ \A k \in 1..4 : split(keyOut[f], "|")[k] # <<>>

\* the vendor name, white space and control characters apart, holds nothing
VendorBlank(v) == \A i \in DOMAIN v : v[i] \in Whitespace \cup ControlChars

\* the invoice number holds no ASCII letter or digit and no Nepali digit
InvoiceBlank(n) == \A i \in DOMAIN n : n[i] \notin AsciiAlnum \cup Range(NepaliDigits)

AnyMissing(in) ==
    Falsy(in.workspaceId) \/ Falsy(in.vendorName) \/ Falsy(in.invoiceNumber)
    \/ Falsy(in.bsDate)

\* C7: generateMergeKey returns null exactly when one of the four inputs is
\* missing (null or empty) or the vendor name or the invoice number normalizes
\* to nothing (workspace id and date are taken as given); in every other
\* case it returns a key.
C7_NullIffMissingOrEmpty ==
    /\ "pipeline" \in keyDone =>
          ( keyOut["pipeline"] = NoStr <=>
              \/ AnyMissing(keyIn)
              \/ VendorBlank(keyIn.vendorName)
              \/ InvoiceBlank(keyIn.invoiceNumber) )
    /\ "normalization" \in keyDone =>
          ( keyOut["normalization"] = NoStr <=>
              \/ AnyMissing(keyIn)
              \/ Falsy(normalizeVendorName(keyIn.vendorName))
              \/ Falsy(normalizeInvoiceNumber(keyIn.invoiceNumber)) )

\* both implementations returned null for four inputs that are all present,
\* because the vendor name normalized to nothing
C7_Witness ==
    /\ keyDone = KeyImpls
    /\ ~AnyMissing(keyIn)
    /\ VendorBlank(keyIn.vendorName)
    /\ ~InvoiceBlank(keyIn.invoiceNumber)
    /\ keyOut["pipeline"] = NoStr /\ keyOut["normalization"] = NoStr

\* ---- claims about the calendar ---------------------------------------------

\* the day exists in that month of that year of the calendar table
ValidBs(bs) ==
    /\ bs.year \in BsTableYears /\ bs.month \in 1..12
    /\ bs.day \in 1..BsMonthDays[bs.year][bs.month]

ValidAd(ad) == ad.month \in 1..12 /\ ad.day \in 1..AdMonthDays(ad.year)[ad.month]

\* the AD date lies within the days the calendar table covers
AdInTable(ad) ==
    /\ ValidAd(ad)
    /\ NewDate(ad.year, ad.month - 1, ad.day) - BsEpoch \in 0..(BsTableDays - 1)

Bs20820907 == [year |-> 2082, month |-> 9, day |-> 7]
Ad20251222 == [year |-> 2025, month |-> 12, day |-> 22]

C10_NullForInvalidDate ==
    /\ (calIn.cal = "BS" /\ "bsToAd" \in calDone)
          => (calOut["bsToAd"] # NoDate => ValidBs(calIn.date))
    /\ (calIn.cal = "AD" /\ "adToBs" \in calDone)
          => (calOut["adToBs"] # NoDate => AdInTable(calIn.date))

\* ---- claims about the approval gate ------------------------------------------

Gate(flags) ==
    ~flags.missing_fields /\ ~flags.math_mismatch /\ ~flags.date_conversion_failed

\* C8: can_approve of processGeminiExtraction, and canAutoApprove of a flag
\* set, is true exactly when missing_fields, math_mismatch and
\* date_conversion_failed are all false, whatever vat_inconsistent and
\* pan_invalid are.
C8_ApprovalGate ==
    /\ "processGeminiExtraction" \in pipeDone =>
          pipeOut["processGeminiExtraction"].can_approve
              = Gate(pipeOut["processGeminiExtraction"].flags)
    /\ "canAutoApprove" \in pipeDone =>
          pipeOut["canAutoApprove"].value
              = Gate(IF pipeIn.kind = "flags" THEN pipeIn.flags
                     ELSE pipeOut["processGeminiExtraction"].flags)

\* an extraction with an inconsistent VAT and an invalid PAN is approvable,
\* and canAutoApprove says the same of its flags
C8_Witness ==
    /\ {"processGeminiExtraction", "canAutoApprove"} \subseteq pipeDone
    /\ pipeIn.kind = "extraction"
    /\ pipeOut["processGeminiExtraction"].flags.vat_inconsistent
    /\ pipeOut["processGeminiExtraction"].flags.pan_invalid
    /\ pipeOut["processGeminiExtraction"].can_approve
    /\ pipeOut["canAutoApprove"].value

\* ---- claims about the validation flags ---------------------------------------

\* the processed data of a finished processGeminiExtraction, or the data given
\* to a finished validateInvoice, with the flags returned for it
Flagged ==
    IF "processGeminiExtraction" \in pipeDone
    THEN {[data |-> pipeOut["processGeminiExtraction"].data,
           flags |-> pipeOut["processGeminiExtraction"].flags]}
    ELSE IF "validateInvoice" \in pipeDone
    THEN {[data |-> pipeIn.data, flags |-> pipeOut["validateInvoice"]]}
    ELSE {}

\* C14 as stated: missing_fields is set exactly when one of vendor name,
\* invoice number, primary date and grand total is null or undefined; a field
\* that is present counts as present whatever its value.
C14_MissingIffNull ==
    \A r \in Flagged :
        r.flags.missing_fields
            = (\/ r.data.vendor_name_en = NoStr
               \/ r.data.invoice_number_en = NoStr
               \/ r.data.primary_date = NoDate
               \/ r.data.grand_total = NoNum)

\* C14 amended: missing_fields is set exactly when the vendor name or the
\* invoice number is null, undefined or the empty string, or the primary date
\* or the grand total is null or undefined; a grand total of 0 is not missing.
C14_MissingIffNullOrEmpty ==
    \A r \in Flagged :
        r.flags.missing_fields
            = (\/ r.data.vendor_name_en \in {NoStr, <<>>}
               \/ r.data.invoice_number_en \in {NoStr, <<>>}
               \/ r.data.primary_date = NoDate
               \/ r.data.grand_total = NoNum)

\* validateInvoice on data with a grand total of 0 and nothing missing
C14_Witness ==
    /\ pipeIn.kind = "invoice" /\ "validateInvoice" \in pipeDone
    /\ pipeIn.data.grand_total = Num(0)
    /\ ~pipeOut["validateInvoice"].missing_fields

\* the digits of a PAN, ASCII or Devanagari
DigitCount(pan) ==
    Cardinality({i \in DOMAIN pan :
                    pan[i] \in Range(ArabicDigits) \cup Range(NepaliDigits)})

\* C15: pan_invalid is set exactly when a seller PAN is present and, with its
\* Devanagari digits converted to ASCII and every non-digit stripped, it is not
\* exactly 9 digits; an absent PAN is never flagged and a PAN of 9 Devanagari
\* digits is valid.
C15_PanInvalidIffNotNineDigits ==
    \A r \in Flagged :
        r.flags.pan_invalid
            = (/\ r.data.seller_pan \notin {NoStr, <<>>}
               /\ DigitCount(r.data.seller_pan) # 9)

\* ---- claims about the dates of the pipeline ----------------------------------

\* YYYY/MM/DD: four digits, '/', two digits, '/', two digits
PaddedBsDate(s) ==
    /\ Len(s) = 10
    /\ \A i \in 1..10 : IF i \in {5, 8} THEN s[i] = "/"
                        ELSE s[i] \in Range(ArabicDigits)

\* C18: every non-empty bs_date of a NormalizedDate returned by
\* normalizeDateField (the transaction date and the bill issuing date of the
\* processed data) is a zero-padded YYYY/MM/DD string.
C18_BsDateZeroPadded ==
    "processGeminiExtraction" \in pipeDone =>
        \A d \in {pipeOut["processGeminiExtraction"].data.transaction_date,
                  pipeOut["processGeminiExtraction"].data.bill_issuing_date} :
            (d # NoDate /\ d.bs_date # <<>>) => PaddedBsDate(d.bs_date)

\* ---- claims about the notes ---------------------------------------------------

Noted(r, texts) == \E i \in DOMAIN r.flags.notes : r.flags.notes[i] \in texts

\* C20: whenever processGeminiExtraction or validateInvoice sets one of the
\* flags missing_fields, math_mismatch, vat_inconsistent,
\* date_conversion_failed and pan_invalid, the notes returned hold a note for
\* that flag; a result that cannot be approved has at least one note.
C20_EveryFlagHasItsNote ==
    /\ \A r \in Flagged :
          /\ r.flags.missing_fields => Noted(r, {"Missing required fields"})
          /\ r.flags.math_mismatch => Noted(r, {"Math mismatch"})
          /\ r.flags.vat_inconsistent => Noted(r, {"VAT inconsistent"})
          /\ r.flags.pan_invalid => Noted(r, {"Invalid PAN format"})
          /\ r.flags.date_conversion_failed =>
                 Noted(r, {"Transaction date conversion failed",
                           "Bill issuing date conversion failed",
                           "Date conversion failed"})
    /\ "processGeminiExtraction" \in pipeDone =>
          (~pipeOut["processGeminiExtraction"].can_approve
              => pipeOut["processGeminiExtraction"].flags.notes # <<>>)

\* validateInvoice has set all five flags and noted each of them
C20_Witness ==
    /\ pipeIn.kind = "invoice" /\ "validateInvoice" \in pipeDone
    /\ pipeOut["validateInvoice"].missing_fields
    /\ pipeOut["validateInvoice"].math_mismatch
    /\ pipeOut["validateInvoice"].vat_inconsistent
    /\ pipeOut["validateInvoice"].pan_invalid
    /\ pipeOut["validateInvoice"].date_conversion_failed
    /\ Len(pipeOut["validateInvoice"].notes) = 5

(***************************************************************************)
(* The checks of lib/validation.ts called on their own                      *)
(***************************************************************************)

\* an absent amount counted as 0
AmountOrZero(x) == IF x = NoNum THEN 0 ELSE x[1]

\* |a - b|
Distance(a, b) == IF a >= b THEN a - b ELSE b - a

\* C11: checkMathMismatch reports a mismatch exactly when the total is
\* present and |taxable + vat - total| > tolerance, an absent taxable or vat
\* counted as 0; with no total, or a difference equal to the tolerance, it
\* reports none.
C11_MismatchIffBeyondTolerance ==
    "checkMathMismatch" \in fnDone =>
        fnOut["checkMathMismatch"].mismatch
        = (/\ fnIn.total # NoNum
           /\ Distance(AmountOrZero(fnIn.taxable) + AmountOrZero(fnIn.vat), fnIn.total[1])
                  > fnIn.tolerance)

\* checkMathMismatch(1000, 130, 1200) has returned a mismatch
C11_Witness ==
    /\ "checkMathMismatch" \in fnDone
    /\ fnIn.taxable = Num(1000) /\ fnIn.vat = Num(130) /\ fnIn.total = Num(1200)
    /\ fnIn.tolerance = AMOUNT_TOLERANCE
    /\ fnOut["checkMathMismatch"].mismatch

\* C12: checkVatInconsistent reports an inconsistency exactly when rate > 0,
\* taxable > 0, the vat is present and |taxable * rate / 100 - vat| >
\* tolerance (compared here multiplied by 100); in every other case none.
C12_InconsistentIffBeyondTolerance ==
    "checkVatInconsistent" \in fnDone =>
        fnOut["checkVatInconsistent"].inconsistent
        = (/\ fnIn.rate # NoNum /\ fnIn.rate[1] > 0
           /\ fnIn.taxable # NoNum /\ fnIn.taxable[1] > 0
           /\ fnIn.vat # NoNum
           /\ Distance(fnIn.taxable[1] * fnIn.rate[1], fnIn.vat[1] * 100)
                  > fnIn.tolerance * 100)

\* C13: inferVatRate returns the explicit rate when it is 0 or 13, otherwise
\* 0 when the vat amount is absent or zero, otherwise 13; inferVATRate of the
\* pipeline returns the same rate for the same arguments.
C13_RateIsExplicitOrInferred ==
    /\ "inferVatRate" \in fnDone =>
           fnOut["inferVatRate"]
           = (IF fnIn.rate \in {Num(0), Num(13)} THEN fnIn.rate[1]
              ELSE IF fnIn.vat \in {NoNum, Num(0)} THEN 0
              ELSE 13)
    /\ {"inferVatRate", "inferVATRate"} \subseteq fnDone =>
           fnOut["inferVATRate"] = fnOut["inferVatRate"]

\* both have returned 13 for (1000, 130) and an explicit rate of 5
C13_Witness ==
    /\ {"inferVatRate", "inferVATRate"} \subseteq fnDone
    /\ fnIn.taxable = Num(1000) /\ fnIn.vat = Num(130) /\ fnIn.rate = Num(5)
    /\ fnOut["inferVatRate"] = 13 /\ fnOut["inferVATRate"] = 13

(***************************************************************************)
(* getFiscalYear                                                            *)
(***************************************************************************)

\* the two digits, or the one digit, of a number below 100 as a template
\* prints it
TwoDigits(n) == <<ArabicDigits[(n \div 10) + 1], ArabicDigits[(n % 10) + 1]>>
Plain(n) == IF n < 10 THEN <<ArabicDigits[n + 1]>> ELSE TwoDigits(n)

\* the four digits of a year
FourDigits(y) == TwoDigits(y \div 100) \o TwoDigits(y % 100)

\* "{year}/{(year+1) mod 100}" from month 4 on, "{year-1}/{year mod 100}"
\* before it, the second number printed plainly or with two digits
FiscalYearText(bs, Show(_)) ==
    IF bs.month >= 4 THEN FourDigits(bs.year) \o <<"/">> \o Show((bs.year + 1) % 100)
    ELSE FourDigits(bs.year - 1) \o <<"/">> \o Show(bs.year % 100)

\* C16: getFiscalYear returns "{year}/{(year+1) mod 100}" for a BS date with
\* month >= 4 and "{year-1}/{year mod 100}" for one with month < 4: each
\* getFiscalYear returns that text, and the two return the same text.
C16_FiscalYearOfBsDate ==
    /\ \A f \in {"getFiscalYear", "getFiscalYear_export"} \cap fnDone :
           fnOut[f] \in {FiscalYearText(fnIn.bs, Plain), FiscalYearText(fnIn.bs, TwoDigits)}
    /\ {"getFiscalYear", "getFiscalYear_export"} \subseteq fnDone =>
           fnOut["getFiscalYear"] = fnOut["getFiscalYear_export"]

(***************************************************************************)
(* Date-string parsing                                                      *)
(***************************************************************************)

\* C17: parseBSDate and parseADDate accept "/", "-" and "." as the separator
\* and yield the same date for all three (the date of the three numbers
\* written), and reject every string whose month is outside 1..12 or whose
\* day is outside 1..32.
C17_ParsesEverySeparator ==
    \A f \in {"parseBSDate", "parseADDate"} \cap fnDone :
        /\ fnIn.month \notin 1..12 \/ fnIn.day \notin 1..32 => fnOut[f] = NoDate
        /\ fnIn.month \in 1..12 /\ fnIn.day \in 1..31 =>
               fnOut[f] = [year |-> fnIn.year, month |-> fnIn.month, day |-> fnIn.day]

(***************************************************************************)
(* normalizeVendorName                                                      *)
(***************************************************************************)

\* the suffixes of the list that the name ends in
TrailingSuffixes(name) == {s \in Range(suffixes) : endsWith(name, s)}

\* the name without one trailing occurrence of the suffix s
WithoutSuffix(name, s) == trim(SubSeq(name, 1, Len(name) - Len(s)))

\* C19: normalizeVendorName returns the trimmed, whitespace-collapsed,
\* lowercased name with exactly one trailing occurrence of a suffix of the
\* list removed; a name ending in two suffix tokens loses only the last one.
C19_OneSuffixRemoved ==
    "normalizeVendorName" \in fnDone =>
        fnOut["normalizeVendorName"]
        \in (IF TrailingSuffixes(toLowerCase(normalizeString(fnIn.name))) = {}
             THEN {toLowerCase(normalizeString(fnIn.name))}
             ELSE {WithoutSuffix(toLowerCase(normalizeString(fnIn.name)), s) :
                       s \in TrailingSuffixes(toLowerCase(normalizeString(fnIn.name)))})

(***************************************************************************)
(* The pipeline on every extraction                                         *)
(***************************************************************************)

\* the three numbers written in a raw date, whatever its separator
WrittenDate(raw) == parseBSDate(convertNepaliDigits(raw))

\* the raw date names a day that exists in the calendar it is written in
\* (either calendar when none is given) and that the table covers
Convertible(raw, calendar) ==
    /\ WrittenDate(raw) # NoDate
    /\ \/ calendar \in {"BS", "none"} /\ ValidBs(WrittenDate(raw))
       \/ calendar \in {"AD", "none"} /\ AdInTable(WrittenDate(raw))

\* the results of processGeminiExtraction that have been returned
Processed ==
    IF pipeIn.kind = "extraction" /\ "processGeminiExtraction" \in pipeDone
    THEN {[extraction |-> pipeIn.extraction, workspaceId |-> pipeIn.workspaceId, result |-> pipeOut["processGeminiExtraction"]]}
    ELSE {}

\* C21: processGeminiExtraction returns a result for every extraction, and
\* whenever a non-empty raw transaction or bill-issuing date cannot be
\* converted the result has date_conversion_failed set and can_approve false.
C21_UnconvertibleDateIsFlagged ==
    \A p \in Processed :
        /\ p.result.success
        /\ (\/ /\ ~Falsy(p.extraction.transaction_date_raw)
               /\ ~Convertible(p.extraction.transaction_date_raw, p.extraction.transaction_date_calendar)
            \/ /\ ~Falsy(p.extraction.bill_issuing_date_raw)
               /\ ~Convertible(p.extraction.bill_issuing_date_raw, p.extraction.bill_issuing_date_calendar))
           => p.result.flags.date_conversion_failed /\ ~p.result.can_approve

\* C30: whenever processGeminiExtraction returns can_approve = true for a
\* non-empty workspace id, the merge_key is non-null and its date component
\* is the bs_date of the chosen primary date (the transaction date when it
\* converted, otherwise the bill-issuing date), whose conversion_valid is true.
C30_ApprovableHasMergeKey ==
    \A p \in Processed :
        p.result.can_approve /\ ~Falsy(p.workspaceId) =>
            /\ p.result.data.merge_key # NoStr
            /\ p.result.data.primary_date # NoDate
            /\ p.result.data.primary_date.conversion_valid
            /\ p.result.data.primary_date
               = (IF /\ p.result.data.transaction_date # NoDate
                     /\ p.result.data.transaction_date.conversion_valid
                  THEN p.result.data.transaction_date
                  ELSE p.result.data.bill_issuing_date)
            /\ endsWith(p.result.data.merge_key, <<"|">> \o p.result.data.primary_date.bs_date)

\* C29: the flags of processGeminiExtraction agree with the validation
\* functions: math_mismatch is checkMathMismatch(taxable, vat, total).mismatch
\* and vat_inconsistent is checkVatInconsistent(taxable, vat, inferred
\* rate).inconsistent, also when the total or the vat amount is absent.
C29_PipelineFlagsAgree ==
    \A p \in Processed :
        /\ p.result.flags.math_mismatch
           = checkMathMismatch(p.extraction.taxable_amount, p.extraction.vat_amount, p.extraction.grand_total, AMOUNT_TOLERANCE).mismatch
        /\ p.result.flags.vat_inconsistent
           = checkVatInconsistent(p.extraction.taxable_amount, p.extraction.vat_amount, Num(p.result.data.vat_rate), AMOUNT_TOLERANCE).inconsistent

(***************************************************************************)
(* The two generateMergeKey                                                 *)
(***************************************************************************)

\* C28: the generateMergeKey of the pipeline and the one of the normalization
\* module return the same value for the same workspace id, vendor name,
\* invoice number and BS date: both null or the same key.
C28_MergeKeysAgree ==
    KeyImpls \subseteq keyDone => keyOut["pipeline"] = keyOut["normalization"]

(***************************************************************************)
(* The merge lookup and concurrent merges                                   *)
(***************************************************************************)

\* worker w makes its call of checkForMergeCandidate in this step
LooksUp(w) == pc[w] = "idle" /\ pc'[w] # "idle" /\ mode'[w] = "run"

\* C22: checkForMergeCandidate(mergeKey, currentId) never returns the current
\* record: a returned candidate is a persisted invoice with another id whose
\* merge_key is mergeKey, with confidence 'exact', and the result is null
\* when mergeKey is null or no other record has that key.
C22_CandidateIsAnotherRecord ==
    [][\A w \in Workers : LooksUp(w) =>
          /\ candidate'[w] # NoCandidate =>
                 /\ candidate'[w].existing_invoice_id \in DOMAIN invoices
                 /\ candidate'[w].existing_invoice_id # duplicateInvoiceId'[w]
                 /\ invoices[candidate'[w].existing_invoice_id].merge_key = mergeKey'[w]
                 /\ candidate'[w].merge_key = mergeKey'[w]
                 /\ candidate'[w].confidence = "exact"
          /\ (\/ mergeKey'[w] = NULL
              \/ ~\E j \in DOMAIN invoices \ {duplicateInvoiceId'[w]} :
                      invoices[j].merge_key = mergeKey'[w])
                 => candidate'[w] = NoCandidate]_vars

\* a lookup has returned a candidate while three invoices carried the key
C22_Witness ==
    \E w \in Workers :
        /\ mode[w] = "run"
        /\ candidate[w] # NoCandidate
        /\ candidate[w].existing_invoice_id # duplicateInvoiceId[w]
        /\ Cardinality({j \in DOMAIN invoices : invoices[j].merge_key = mergeKey[w]}) = MaxInv

\* another call is merging a different duplicate into the same invoice
MergesIntoSameInvoice(w) ==
    \E v \in Workers \ {w} :
        /\ pc[v] # "idle"
        /\ existingInvoiceId[v] = existingInvoiceId[w]
        /\ duplicateInvoiceId[v] # duplicateInvoiceId[w]

\* the page numbers of the invoice are pairwise distinct
DistinctPageNos(pgs, inv) ==
    \A p, q \in PagesOf(pgs, inv) : p # q => pgs[p].page_no # pgs[q].page_no

\* C27: when two executeAutoMerge calls merge two different duplicates into
\* the same surviving invoice and no store call fails, the delete of a
\* duplicate removes no page (every page has been moved to the survivor) and
\* the survivor's page numbers stay pairwise distinct.
C27_NoPageLostByMerging ==
    [][\A w \in Workers :
          (/\ pc[w] = "delete" /\ pc'[w] = "done"
           /\ faults' = 0
           /\ MergesIntoSameInvoice(w)
           /\ existingInvoiceId[w] \in DOMAIN invoices')
          => /\ DOMAIN invoice_pages' = DOMAIN invoice_pages
             /\ DistinctPageNos(invoice_pages', existingInvoiceId[w])]_vars


(***************************************************************************)
(* Claims about the application                                            *)
(***************************************************************************)

\* the process-invoice call for task t has returned
Returned(t) == t \in DOMAIN queue /\ taskRun[t].pc = "returned"

\* C25: once process-invoice has returned for a task, the task has a final
\* status: 'completed' if the invoice row was inserted, 'failed' with the
\* error message recorded if a step threw; no task is left 'pending' after
\* its attempt returned an error.
C25_ReturnedTaskIsFinal ==
    \A t \in Tasks :
        Returned(t) =>
            /\ queue[t].status \in {"completed", "failed"}
            /\ taskRun[t].error # NULL =>
                   queue[t] = [status |-> "failed", error_message |-> taskRun[t].error]
            /\ (taskRun[t].inserted /\ taskRun[t].error = NULL) =>
                   queue[t].status = "completed"

\* C23: validation flags gate approval: no invoice has status 'approved'
\* while its missing_fields or math_mismatch flag is set (the flags the
\* application stores with the row; date_conversion_failed is not among them).
C23_FlaggedIsNotApproved ==
    \A i \in DOMAIN invoices :
        invoices[i].status = "approved" =>
            ~invoices[i].flags.missing_fields /\ ~invoices[i].flags.math_mismatch

\* checkMathMismatch and the required fields, on the fields of a client invoice
StillInvalid(inv) ==
    \/ Distance(inv.taxable_amount + inv.vat_amount, inv.grand_total) > AMOUNT_TOLERANCE
    \/ inv.vendor_name \in {NULL, ""}
    \/ inv.invoice_number \in {NULL, ""}

\* C24: after a reviewer edited a flagged invoice and resubmitted it, the
\* flags kept are those computed from the corrected fields: an edit that
\* leaves taxable + vat differing from the total by more than the tolerance,
\* or a required field empty, does not end with the invoice approved and its
\* flags cleared.
C24_ResubmissionIsValidated ==
    \A i \in client.reviewed :
        StillInvalid(client.invoices[i]) =>
            ~(/\ client.invoices[i].status = "approved"
              /\ ~client.invoices[i].flags.math_mismatch
              /\ ~client.invoices[i].flags.missing_fields)

\* the create request answered with an error after its invoice row was inserted
FailedAfterInsert ==
    createRun.pc = "returned" /\ createRun.response # 200 /\ createRun.invoiceId # 0

\* C26: POST /api/invoices/create is all-or-nothing: when it answers with an
\* error after the invoice row was inserted, the invoice row and every
\* invoice_pages row of that request are gone and every file the request
\* uploaded has been removed.
C26_CreateIsAllOrNothing ==
    FailedAfterInsert =>
        /\ createRun.invoiceId \notin DOMAIN invoices
        /\ \A p \in DOMAIN invoice_pages : invoice_pages[p].invoice_id # createRun.invoiceId
        /\ createRun.uploaded \cap files = {}

====
